---------------------------- MODULE Spec2Model ----------------------------
(***************************************************************************)
(* SmashForm: overhead-smash analysis engine.                              *)
(*                                                                         *)
(*   backend/app/core/comparison.py      ReferenceComparator               *)
(*   backend/app/core/shot_segmenter.py  ShotSegmenter                     *)
(*   backend/app/core/biomechanics.py    BiomechanicsExtractor             *)
(*   backend/app/api/routes.py           analyze_video                     *)
(*                                                                         *)
(* Number representation.  Python floats are modelled by exact rationals.  *)
(* A rational is a pair <<n, d>> with d > 0.  Values the code rounds with  *)
(* round(x, 1) are kept as an integer number of tenths.  Signals (angle    *)
(* and position series) are integers in a fixed-point unit stated where    *)
(* the signal is built.  Exact arithmetic stands for IEEE arithmetic:      *)
(* rounding-error effects of the floating-point operations are not         *)
(* modelled.                                                               *)
(***************************************************************************)
EXTENDS Integers, Sequences, FiniteSets, TLC

VARIABLES
    cpc,        \* comparator session: which comparator call ran last
    reference,  \* ReferenceComparator.reference (None before construction)
    features,   \* extracted_features: the dict, as a sequence of <<name, value>>
    metrics,    \* list[BiomechanicsMetric]
    score,      \* technique similarity score, in tenths (None before it is computed)
    sev,        \* last direct _classify_severity call: arguments and result
    poses,      \* list[FramePose]
    fps,        \* frame rate, a rational
    dominant_hand,  \* the dominant_hand argument
    segment,    \* outcome of segment_shot
    pc,         \* position in analyze_video / in a segmenter-extractor session
    calls,      \* analyze_video: the stage calls made so far, in order
    response,   \* analyze_video: the HTTP outcome (None while running)
    video,      \* analyze_video: state of the uploaded file
    override,   \* analyze_video: state of data/reference_profile.json
    array,      \* signal routines: the caller's array (None is NaN)
    start_arg,  \* signal routines: the after_frame argument
    routine,    \* signal routines: the routine that was called
    returned,   \* signal routines: what the call returned or raised
    stages,     \* shared stages: the segmenter, extractor and comparator objects
    analyses    \* shared stages: the analyses running on them

cmpVars == <<cpc, reference, features, metrics, score, sev>>

runVars == <<poses, fps, dominant_hand, segment, pc, calls, response, video, override>>

sigVars == <<array, start_arg, routine, returned>>

shareVars == <<stages, analyses>>

vars == <<cpc, reference, features, metrics, score, sev, poses, fps,
          dominant_hand, segment, pc, calls, response, video, override,
          array, start_arg, routine, returned, stages, analyses>>

\* Optional values: Python's None is the empty sequence, a value v is <<v>>.
\* (As a higher_is_better value None is the string "None".)
None == <<>>

Some(v) == <<v>>

Get(o) == o[1]

\* What a call of a signal routine did: it returned `value` or raised, and
\* left the caller's array as `input`.
NoCall == [kind |-> "none", value |-> <<>>]

Returns(value, input) == [kind |-> "return", value |-> value, input |-> input]

Raises(input) == [kind |-> "raise", value |-> <<>>, input |-> input]

\* No signal routine has been called.
IdleSig ==
    /\ array = <<>>
    /\ start_arg = 0
    /\ routine = "none"
    /\ returned = NoCall

\* No shared stage object exists.
IdleShare ==
    /\ stages = None
    /\ analyses = <<>>

-----------------------------------------------------------------------------
(* Rationals <<n, d>>, d > 0 *)

Abs(i) == IF i < 0 THEN -i ELSE i

Max2(a, b) == IF a >= b THEN a ELSE b

Min2(a, b) == IF a <= b THEN a ELSE b

R(n, d) == <<n, d>>

RInt(i) == <<i, 1>>

RSub(a, b) == <<a[1] * b[2] - b[1] * a[2], a[2] * b[2]>>

RAbs(a) == <<Abs(a[1]), a[2]>>

RLe(a, b) == a[1] * b[2] <= b[1] * a[2]

RLt(a, b) == a[1] * b[2] < b[1] * a[2]

REq(a, b) == a[1] * b[2] = b[1] * a[2]

RMulInt(a, k) == <<a[1] * k, a[2]>>

\* round(n/d * 10) as an integer: the value of Python's round(x, 1) in tenths.
\* Exact ties go to the even tenth, as round() does on an exactly
\* representable tie.
RoundDiv(n, d) ==
    LET q == n \div d
        r == n - q * d
    IN  IF 2 * r < d THEN q
        ELSE IF 2 * r > d THEN q + 1
        ELSE IF q % 2 = 0 THEN q ELSE q + 1

Round1(a) == RoundDiv(10 * a[1], a[2])

-----------------------------------------------------------------------------
(* comparison.py : FEATURE_METADATA, FEATURE_WEIGHTS *)

FeatureNames ==
    << "shoulder_rotation_angle", "shoulder_angular_velocity",
       "elbow_extension_angle", "elbow_angular_velocity",
       "wrist_snap_timing", "hip_shoulder_separation",
       "knee_flexion_angle", "com_vertical_displacement",
       "hip_shoulder_delay", "shoulder_elbow_delay",
       "elbow_wrist_delay", "swing_duration_ms" >>

KnownFeatures == { FeatureNames[i] : i \in 1..Len(FeatureNames) }

Meta(dn, u, ref, hib, tol, desc) ==
    [display_name |-> dn, unit |-> u, reference |-> ref,
     higher_is_better |-> hib, tolerance |-> tol, description |-> desc]

FEATURE_METADATA ==
    [f \in KnownFeatures |->
      CASE f = "shoulder_rotation_angle"   -> Meta("Shoulder Rotation", "degrees", 45, "True", 10,
             "Maximum shoulder rotation during backswing. Greater rotation stores more energy.")
        [] f = "shoulder_angular_velocity" -> Meta("Shoulder Angular Velocity", "deg/s", 800, "True", 150,
             "Peak rotational speed of shoulders during swing.")
        [] f = "elbow_extension_angle"     -> Meta("Elbow Extension", "degrees", 165, "True", 10,
             "Elbow angle at contact. Should be nearly extended but not locked.")
        [] f = "elbow_angular_velocity"    -> Meta("Elbow Angular Velocity", "deg/s", 1200, "True", 200,
             "Speed of elbow extension. Higher = more power.")
        [] f = "wrist_snap_timing"         -> Meta("Wrist Snap Timing", "%", 8, "None", 3,
             "When wrist peaks relative to elbow. Positive = after elbow (correct).")
        [] f = "hip_shoulder_separation"   -> Meta("Hip-Shoulder Separation", "degrees", 45, "True", 8,
             "Angular difference between hip and shoulder lines. More = more power potential.")
        [] f = "knee_flexion_angle"        -> Meta("Knee Flexion", "degrees", 120, "None", 15,
             "Knee bend during loading phase. Optimal ~120 for power without compromising stability.")
        [] f = "com_vertical_displacement" -> Meta("Vertical Displacement", "pixels", 80, "True", 20,
             "How much the body rises during swing (jump smash component).")
        [] f = "hip_shoulder_delay"        -> Meta("Hip-Shoulder Delay", "ms", 25, "None", 10,
             "Time between hip and shoulder peak velocity. Proper sequencing = 20-30ms.")
        [] f = "shoulder_elbow_delay"      -> Meta("Shoulder-Elbow Delay", "ms", 20, "None", 8,
             "Time between shoulder and elbow peak velocity.")
        [] f = "elbow_wrist_delay"         -> Meta("Elbow-Wrist Delay", "ms", 15, "None", 6,
             "Time between elbow and wrist peak velocity.")
        [] f = "swing_duration_ms"         -> Meta("Swing Duration", "ms", 250, "None", 40,
             "Total time from knee flexion to contact. Too fast = less power, too slow = telegraphed.") ]

\* Weights in tenths (1.2 is 12).
FEATURE_WEIGHTS ==
    [f \in KnownFeatures |->
      CASE f = "shoulder_rotation_angle"   -> 10
        [] f = "shoulder_angular_velocity" -> 12
        [] f = "elbow_extension_angle"     -> 10
        [] f = "elbow_angular_velocity"    -> 12
        [] f = "wrist_snap_timing"         -> 15
        [] f = "hip_shoulder_separation"   -> 10
        [] f = "knee_flexion_angle"        -> 8
        [] f = "com_vertical_displacement" -> 6
        [] f = "hip_shoulder_delay"        -> 13
        [] f = "shoulder_elbow_delay"      -> 13
        [] f = "elbow_wrist_delay"         -> 13
        [] f = "swing_duration_ms"         -> 7 ]

\* FEATURE_WEIGHTS.get(metric.name, 1.0), in tenths
DefaultWeight == 10

\* meta.get("tolerance", 10)
DefaultTolerance == 10

-----------------------------------------------------------------------------
(* comparison.py : ReferenceComparator *)

RECURSIVE GCD(_, _)
GCD(a, b) == IF b = 0 THEN a ELSE GCD(b, a % b)

LCM(a, b) == (a \div GCD(a, b)) * b

RNorm(a) ==
    LET g == GCD(Abs(a[1]), a[2])
    IN  IF g = 0 THEN a ELSE <<a[1] \div g, a[2] \div g>>

RAdd(a, b) ==
    LET l == LCM(a[2], b[2])
    IN  RNorm(<<a[1] * (l \div a[2]) + b[1] * (l \div b[2]), l>>)

\* a / b for b # 0
RDiv(a, b) ==
    IF b[1] > 0 THEN <<a[1] * b[2], a[2] * b[1]>>
                ELSE <<-(a[1] * b[2]), a[2] * (-b[1])>>

\* The override source: kind "none" is `path` unset or not existing, kind
\* "malformed" a file json.load() rejects, kind "dict" a file that parses to
\* `data`, a dict from feature names to dicts that may hold "reference".
NoOverride == [kind |-> "none", data |-> <<>>]

MalformedOverride == [kind |-> "malformed", data |-> <<>>]

DictOverride(d) == [kind |-> "dict", data |-> d]

\* Whether _load_reference(path) raises.
LoadReferenceRaises(custom) == custom.kind = "malformed"

\* Mutant: a feature the override does not define loses its built-in
\* reference (the inner .get() default is dropped).
LoadReference_OverrideOnly(custom) ==
    IF custom.kind = "dict"
    THEN [key \in KnownFeatures |->
            IF key \in DOMAIN custom.data /\ "reference" \in DOMAIN custom.data[key]
            THEN custom.data[key].reference
            ELSE RInt(0)]
    ELSE [key \in KnownFeatures |-> RInt(FEATURE_METADATA[key].reference)]

\* _load_reference(path), when it returns
LoadReference(custom) ==
    IF custom.kind = "dict"
    THEN [key \in KnownFeatures |->
            IF key \in DOMAIN custom.data /\ "reference" \in DOMAIN custom.data[key]
            THEN custom.data[key].reference
            ELSE RInt(FEATURE_METADATA[key].reference)]
    ELSE [key \in KnownFeatures |-> RInt(FEATURE_METADATA[key].reference)]

\* The direction tests of _classify_severity (lines 232-236 and 241-244).
Favorable(difference, higher_is_better) ==
    \/ higher_is_better = "True" /\ difference[1] > 0
    \/ higher_is_better = "False" /\ difference[1] < 0

\* Mutant: the tolerance band is open (abs_diff < tolerance).
ClassifySeverity_StrictTol(difference, tolerance, higher_is_better) ==
    LET abs_diff == RAbs(difference)
    IN  IF RLt(abs_diff, tolerance) THEN "low"
        ELSE IF RLe(abs_diff, RMulInt(tolerance, 2))
        THEN IF Favorable(difference, higher_is_better) THEN "low" ELSE "medium"
        ELSE IF Favorable(difference, higher_is_better) THEN "medium" ELSE "high"

\* Mutant: beyond twice the tolerance the favorable direction is not capped.
ClassifySeverity_NoCap(difference, tolerance, higher_is_better) ==
    LET abs_diff == RAbs(difference)
    IN  IF RLe(abs_diff, tolerance) THEN "low"
        ELSE IF RLe(abs_diff, RMulInt(tolerance, 2))
        THEN IF Favorable(difference, higher_is_better) THEN "low" ELSE "medium"
        ELSE "high"

\* _classify_severity(difference, tolerance, higher_is_better)
ClassifySeverity(difference, tolerance, higher_is_better) ==
    LET abs_diff == RAbs(difference)
    IN  IF RLe(abs_diff, tolerance) THEN "low"
        ELSE IF RLe(abs_diff, RMulInt(tolerance, 2))
        THEN IF higher_is_better = "True" /\ difference[1] > 0 THEN "low"
             ELSE IF higher_is_better = "False" /\ difference[1] < 0 THEN "low"
             ELSE "medium"
        ELSE IF higher_is_better = "True" /\ difference[1] > 0 THEN "medium"
        ELSE IF higher_is_better = "False" /\ difference[1] < 0 THEN "medium"
        ELSE "high"

\* Mutant: a zero reference always yields 0 percent.
DiffPercent_ZeroIsZero(difference, ref_value) ==
    IF ref_value[1] # 0
    THEN RMulInt(RNorm(RDiv(difference, ref_value)), 100)
    ELSE RInt(0)

\* diff_percent of compare() (lines 179-182); fractions are kept in lowest
\* terms.
DiffPercent(difference, ref_value) ==
    IF ref_value[1] # 0
    THEN RMulInt(RNorm(RDiv(difference, ref_value)), 100)
    ELSE IF difference[1] # 0 THEN RInt(100) ELSE RInt(0)

\* The body of compare()'s loop for one known feature.
CompareOne(ref, feature_name, user_value) ==
    LET meta == FEATURE_METADATA[feature_name]
        ref_value == ref[feature_name]
        difference == RNorm(RSub(user_value, ref_value))
        diff_percent == DiffPercent(difference, ref_value)
        severity == ClassifySeverity(difference, RInt(meta.tolerance),
                                     meta.higher_is_better)
    IN  [name |-> feature_name,
         display_name |-> meta.display_name,
         user_value |-> Round1(user_value),
         reference_value |-> Round1(ref_value),
         unit |-> meta.unit,
         difference |-> Round1(difference),
         difference_percent |-> Round1(diff_percent),
         severity |-> severity,
         description |-> meta.description]

\* Mutant: the metrics are emitted in reverse input order.
RECURSIVE Compare_Reversed(_, _)
Compare_Reversed(ref, extracted_features) ==
    IF extracted_features = <<>> THEN <<>>
    ELSE LET item == Head(extracted_features)
             rest == Compare_Reversed(ref, Tail(extracted_features))
         IN  IF item[1] \notin KnownFeatures THEN rest
             ELSE rest \o <<CompareOne(ref, item[1], item[2])>>

\* compare(extracted_features)
RECURSIVE Compare(_, _)
Compare(ref, extracted_features) ==
    IF extracted_features = <<>> THEN <<>>
    ELSE LET item == Head(extracted_features)
             rest == Compare(ref, Tail(extracted_features))
         IN  IF item[1] \notin KnownFeatures THEN rest
             ELSE <<CompareOne(ref, item[1], item[2])>> \o rest

\* Mutant: every metric weighs 1.0.
MetricWeight_Uniform(metric) == DefaultWeight

\* FEATURE_WEIGHTS.get(metric.name, 1.0)
MetricWeight(metric) ==
    IF metric.name \in KnownFeatures THEN FEATURE_WEIGHTS[metric.name]
                                     ELSE DefaultWeight

\* FEATURE_METADATA.get(metric.name, {}).get("tolerance", 10)
MetricTolerance(metric) ==
    IF metric.name \in KnownFeatures THEN FEATURE_METADATA[metric.name].tolerance
                                     ELSE DefaultTolerance

\* Mutant: deviation_ratio is not capped at 1.
FeatureScore_NoCap(metric) ==
    LET tolerance == MetricTolerance(metric)
    IN  RNorm(<<100 * (20 * tolerance - Abs(metric.difference)), 20 * tolerance>>)

\* feature_score of one metric, a rational: 100 * (1 - min(|d| / (2 tol), 1)).
\* metric.difference is in tenths.
FeatureScore(metric) ==
    LET tolerance == MetricTolerance(metric)
        deviation_ratio ==
            IF Abs(metric.difference) <= 20 * tolerance
            THEN <<Abs(metric.difference), 20 * tolerance>>
            ELSE <<1, 1>>
    IN  RNorm(<<100 * (deviation_ratio[2] - deviation_ratio[1]), deviation_ratio[2]>>)

RECURSIVE TotalWeight(_)
TotalWeight(ms) ==
    IF ms = <<>> THEN 0 ELSE MetricWeight(Head(ms)) + TotalWeight(Tail(ms))

RECURSIVE WeightedScore(_)
WeightedScore(ms) ==
    IF ms = <<>> THEN <<0, 1>>
    ELSE LET rest == WeightedScore(Tail(ms))
             term == RMulInt(FeatureScore(Head(ms)), MetricWeight(Head(ms)))
         IN  IF rest[1] = 0 THEN RNorm(term) ELSE RAdd(term, rest)

\* compute_similarity_score(metrics), in tenths
ComputeSimilarityScore(ms) ==
    IF ms = <<>> THEN 0
    ELSE IF TotalWeight(ms) = 0 THEN 0
    ELSE LET q == RNorm(<<WeightedScore(ms)[1],
                          WeightedScore(ms)[2] * TotalWeight(ms)>>)
         IN  Round1(q)

-----------------------------------------------------------------------------
(* Signals.                                                                 *)
(*                                                                          *)
(* A series is a sequence; frame i (0-based, as in the code) is element     *)
(* i + 1.  A sample is None (numpy's NaN) or <<v>> with v an integer in the *)
(* series' fixed-point unit.  Keypoint coordinates and angle samples are    *)
(* multiples of Unit, so that linear interpolation over the gaps the model  *)
(* draws is exact in integers.                                              *)

Unit == 2 * 3

SetMin(S) == CHOOSE a \in S : \A b \in S : a <= b

SetMax(S) == CHOOSE a \in S : \A b \in S : a >= b

Valid(data) == { i \in 1..Len(data) : data[i] # None }

\* np.sum(~np.isnan(data))
CountValid(data) == Cardinality(Valid(data))

\* Mutant: a missing position takes the value of the nearest valid sample
\* on its left (on its right before the first valid sample).
Interp_HoldLeft(data, i) ==
    LET valid == Valid(data)
        first == SetMin(valid)
    IN  IF i < first THEN Get(data[first])
        ELSE Get(data[SetMax({ j \in valid : j < i })])

\* np.interp(i, indices[~nans], data[~nans]) for a missing position i
Interp(data, i) ==
    LET valid == Valid(data)
        first == SetMin(valid)
        last == SetMax(valid)
    IN  IF i < first THEN Get(data[first])
        ELSE IF i > last THEN Get(data[last])
        ELSE LET lo == SetMax({ j \in valid : j < i })
                 hi == SetMin({ j \in valid : j > i })
                 num == (Get(data[hi]) - Get(data[lo])) * (i - lo)
             IN  Get(data[lo])
                   + (CHOOSE q \in {num \div (hi - lo)} : q * (hi - lo) = num)

\* data[nans] = np.interp(indices[nans], indices[~nans], data[~nans])
FillNans(data) ==
    [i \in 1..Len(data) |-> IF data[i] # None THEN data[i] ELSE Some(Interp(data, i))]

\* ShotSegmenter._interpolate_nans: an all-NaN series is returned as it is.
SegInterpolateNans(data) ==
    IF Valid(data) = {} THEN data ELSE FillNans(data)

\* The samples of a series without NaN, as integers.
Values(data) == [i \in 1..Len(data) |-> Get(data[i])]

\* Savitzky-Golay coefficients, polyorder 2, times SavgolDen: the rows give
\* the outputs at offsets -2..2 of a window of 5 (the centre row is the
\* convolution kernel, the others the polynomial fitted to an edge window,
\* mode="interp"); a window of 3 is fitted exactly by a parabola.
SavgolDen == 35

SavgolRows(window) ==
    IF window = 5
    THEN << <<31, 9, -3, -5, 3>>, <<9, 13, 12, 6, -5>>, <<-3, 12, 17, 12, -3>>,
            <<-5, 6, 12, 13, 9>>, <<3, -5, -3, 9, 31>> >>
    ELSE << <<35, 0, 0>>, <<0, 35, 0>>, <<0, 0, 35>> >>

RECURSIVE Dot(_, _)
Dot(a, b) == IF a = <<>> THEN 0 ELSE Head(a) * Head(b) + Dot(Tail(a), Tail(b))

\* signal.savgol_filter(data, window, polyorder=2), times SavgolDen;
\* Len(data) >= window.
SavgolFilter(data, window) ==
    LET n == Len(data)
        half == window \div 2
        rows == SavgolRows(window)
    IN  [i \in 1..n |->
            IF i <= half THEN Dot(rows[i], SubSeq(data, 1, window))
            ELSE IF i > n - half
            THEN Dot(rows[window - (n - i)], SubSeq(data, n - window + 1, n))
            ELSE Dot(rows[half + 1], SubSeq(data, i - half, i + half))]

Unsmoothed(data) == [i \in 1..Len(data) |-> SavgolDen * data[i]]

SMOOTHING_WINDOW == 5

\* ShotSegmenter._smooth_signal(data), times SavgolDen
SmoothSignal(data) ==
    IF Len(data) < SMOOTHING_WINDOW THEN Unsmoothed(data)
    ELSE LET w0 == Min2(SMOOTHING_WINDOW, Len(data) - 1)
             window == IF w0 % 2 = 0 THEN w0 - 1 ELSE w0
         IN  IF window < 3 THEN Unsmoothed(data)
             ELSE SavgolFilter(data, window)

-----------------------------------------------------------------------------
(* scipy.signal.find_peaks(x, prominence=..., distance=...) *)

\* _local_maxima_1d: the midpoints of the plateaus strictly higher than both
\* neighbours; the first and the last sample are never peaks.
LocalMaxima(x) ==
    LET n == Len(x)
        PlateauEnd(l) == SetMax({ r \in l..n : \A k \in l..r : x[k] = x[l] })
        Rising == { l \in 2..n : x[l - 1] < x[l] }
    IN  { (l + PlateauEnd(l)) \div 2 :
            l \in { r \in Rising : PlateauEnd(r) < n /\ x[PlateauEnd(r) + 1] < x[r] } }

\* _select_by_peak_distance: peaks are visited from the highest down; a
\* visited peak that is still kept removes every peak closer than `distance`.
\* np.argsort leaves the order of equally high peaks to the sort, so each
\* order of visiting them is an outcome: the result is the set of the peak
\* sets that can be kept.
RECURSIVE SelectByPeakDistance(_, _, _, _)
SelectByPeakDistance(x, remaining, kept, distance) ==
    IF remaining = {} THEN {kept}
    ELSE LET top == { p \in remaining : \A q \in remaining : x[q] <= x[p] }
         IN  UNION { SelectByPeakDistance(
                         x,
                         { q \in remaining : Abs(q - p) >= distance },
                         kept \cup {p},
                         distance) : p \in top }

\* _peak_prominences (wlen unset): the peak's height above the higher of the
\* two minima between it and the nearest higher sample on either side.
Prominence(x, peak) ==
    LET n == Len(x)
        higherL == { i \in 1..(peak - 1) : x[i] > x[peak] }
        higherR == { i \in (peak + 1)..n : x[i] > x[peak] }
        lo == IF higherL = {} THEN 1 ELSE SetMax(higherL) + 1
        hi == IF higherR = {} THEN n ELSE SetMin(higherR) - 1
        left_min == SetMin({ x[i] : i \in lo..peak })
        right_min == SetMin({ x[i] : i \in peak..hi })
    IN  x[peak] - Max2(left_min, right_min)

-----------------------------------------------------------------------------
(* shot_segmenter.py : ShotSegmenter *)

MIN_FRAMES_FOR_ANALYSIS == 15


\* Keypoint.visibility is kept in tenths: 5 is the code's 0.5.
HalfVisibility == 5

\* kp.get(key)
KpGet(kp, key) == IF key \in DOMAIN kp THEN Some(kp[key]) ELSE None

\* degrees(arccos(clip(dot(v1, v2) / (|v1| |v2| + 1e-8), -1, 1))) for the
\* angle at p2 of p1-p2-p3, on the directions whose angle is a multiple of
\* 45 degrees; a zero vector gives arccos(0).  (The 1e-8 moves the float
\* result by less than 1e-3 degrees.)
JointAngle(p1, p2, p3) ==
    LET v1 == <<p1[1] - p2[1], p1[2] - p2[2]>>
        v2 == <<p3[1] - p2[1], p3[2] - p2[2]>>
        dot == v1[1] * v2[1] + v1[2] * v2[2]
        cross == Abs(v1[1] * v2[2] - v1[2] * v2[1])
    IN  CASE dot = 0 -> 90
          [] cross = 0 /\ dot > 0 -> 0
          [] cross = 0 /\ dot < 0 -> 180
          [] cross # 0 /\ dot = cross -> 45
          [] cross # 0 /\ dot = -cross -> 135

\* _compute_joint_angle on keypoints, as a sample in 1/Unit degrees
ComputeJointAngle(a, b, c) == Unit * JointAngle(<<a.x, a.y>>, <<b.x, b.y>>, <<c.x, c.y>>)

\* The loop of _compute_knee_angles: one sample per pose.
KneeAngleSamples(ps, hand) ==
    [i \in 1..Len(ps) |->
        LET kp == ps[i].keypoints
            hip == KpGet(kp, hand \o "_hip")
            knee == KpGet(kp, hand \o "_knee")
            ankle == KpGet(kp, hand \o "_ankle")
        IN  IF hip = None \/ knee = None \/ ankle = None THEN None
            ELSE IF SetMin({Get(hip).visibility, Get(knee).visibility,
                            Get(ankle).visibility}) < HalfVisibility THEN None
            ELSE Some(ComputeJointAngle(Get(hip), Get(knee), Get(ankle)))]

\* _compute_knee_angles(poses): None, or <<series>> in 1/Unit degrees
ComputeKneeAngles(ps, hand) ==
    LET angles == KneeAngleSamples(ps, hand)
    IN  IF CountValid(angles) < MIN_FRAMES_FOR_ANALYSIS THEN None
        ELSE Some(Values(SegInterpolateNans(angles)))

\* sqrt(dx**2 + dy**2), exact: the model moves joints along an axis or
\* along Pythagorean directions.
Norm(dx, dy) ==
    IF dy = 0 THEN Abs(dx)
    ELSE IF dx = 0 THEN Abs(dy)
    ELSE CHOOSE r \in 0..(Abs(dx) + Abs(dy)) : r * r = dx * dx + dy * dy

\* The loop building `positions` in _compute_wrist_velocities, one coordinate.
WristSamples(ps, hand, c) ==
    [i \in 1..Len(ps) |->
        LET wrist == KpGet(ps[i].keypoints, hand \o "_wrist")
        IN  IF wrist # None /\ Get(wrist).visibility > HalfVisibility
            THEN Some(IF c = "x" THEN Get(wrist).x ELSE Get(wrist).y)
            ELSE None]

\* Mutant: the wrist series is accepted with any number of valid samples.
ComputeWristVelocities_NoMinimum(ps, hand) ==
    LET xs == WristSamples(ps, hand, "x")
        ys == WristSamples(ps, hand, "y")
        n == Len(ps)
    IN  IF CountValid(xs) = 0 THEN None
        ELSE LET px == Values(SegInterpolateNans(xs))
                 py == Values(SegInterpolateNans(ys))
                 central == [i \in 1..n |->
                               IF i = 1 \/ i = n THEN 0
                               ELSE Norm(px[i + 1] - px[i - 1], py[i + 1] - py[i - 1])]
             IN  Some([i \in 1..n |->
                         IF i = 1 THEN central[2]
                         ELSE IF i = n THEN central[n - 1]
                         ELSE central[i]])

\* _compute_wrist_velocities(poses, fps): None, or <<series>>.  The series is
\* in position units per 2*dt: every sample is the code's value times the
\* positive constant 2*dt, which no use of the series depends on (they
\* compare samples with each other and with multiples of their standard
\* deviation).
ComputeWristVelocities(ps, hand) ==
    LET xs == WristSamples(ps, hand, "x")
        ys == WristSamples(ps, hand, "y")
        n == Len(ps)
    IN  IF CountValid(xs) < MIN_FRAMES_FOR_ANALYSIS THEN None
        ELSE LET px == Values(SegInterpolateNans(xs))
                 py == Values(SegInterpolateNans(ys))
                 central == [i \in 1..n |->
                               IF i = 1 \/ i = n THEN 0
                               ELSE Norm(px[i + 1] - px[i - 1], py[i + 1] - py[i - 1])]
             IN  Some([i \in 1..n |->
                         IF i = 1 THEN central[2]
                         ELSE IF i = n THEN central[n - 1]
                         ELSE central[i]])

Negated(x) == [i \in 1..Len(x) |-> -x[i]]

\* np.argmax resolving ties between equal maxima to the last occurrence
ArgMax_Last(x) == SetMax({ i \in 1..Len(x) : \A j \in 1..Len(x) : x[j] <= x[i] })

\* np.argmax(x): the first position of the maximum
ArgMax(x) == SetMin({ i \in 1..Len(x) : \A j \in 1..Len(x) : x[j] <= x[i] })

\* np.argmin(x)
ArgMin(x) == SetMin({ i \in 1..Len(x) : \A j \in 1..Len(x) : x[j] >= x[i] })

\* find_peaks(x, prominence=..., distance=...): the sets of peaks it can
\* return (ties in the distance selection are resolved in an order the
\* library does not fix).  Prominences are integers, and `prominence` is the
\* least integer not below the threshold.
FindPeaks(x, prominence, distance) ==
    { { p \in kept : Prominence(x, p) >= prominence } :
        kept \in SelectByPeakDistance(x, LocalMaxima(x), {}, distance) }

\* Mutant: the search refuses a window of fewer than 10 frames.
FindKneeFlexionPeak_TenFrames(angles) ==
    LET search_end == (6 * Len(angles)) \div 10
    IN  IF search_end < 10 THEN {None}
        ELSE LET head == SubSeq(angles, 1, search_end)
                 neg == Negated(head)
             IN  { IF peaks = {} THEN Some(ArgMin(head) - 1)
                   ELSE LET best == SetMax({ Prominence(neg, p) : p \in peaks })
                        IN  Some(SetMin({ p \in peaks : Prominence(neg, p) = best }) - 1)
                   : peaks \in FindPeaks(neg, 5 * SavgolDen * Unit, 3) }

\* Mutant: the first qualifying minimum is returned, not the most prominent.
FindKneeFlexionPeak_FirstPeak(angles) ==
    LET search_end == (6 * Len(angles)) \div 10
    IN  IF search_end < 5 THEN {None}
        ELSE LET head == SubSeq(angles, 1, search_end)
                 neg == Negated(head)
             IN  { IF peaks = {} THEN Some(ArgMin(head) - 1)
                   ELSE Some(SetMin(peaks) - 1)
                   : peaks \in FindPeaks(neg, 5 * SavgolDen * Unit, 3) }

\* _find_knee_flexion_peak(angles): the frames (0-based) it can return, each
\* None or <<frame>>.  angles is in 1/(SavgolDen*Unit) degrees.
FindKneeFlexionPeak(angles) ==
    LET search_end == (6 * Len(angles)) \div 10
    IN  IF search_end < 5 THEN {None}
        ELSE LET head == SubSeq(angles, 1, search_end)
                 neg == Negated(head)
             IN  { IF peaks = {} THEN Some(ArgMin(head) - 1)
                   ELSE LET best == SetMax({ Prominence(neg, p) : p \in peaks })
                        IN  Some(SetMin({ p \in peaks : Prominence(neg, p) = best }) - 1)
                   : peaks \in FindPeaks(neg, 5 * SavgolDen * Unit, 3) }

RECURSIVE Sum(_)
Sum(x) == IF x = <<>> THEN 0 ELSE Head(x) + Sum(Tail(x))

\* The least integer k >= np.std(x) * 0.5, exactly:
\* 4 k^2 >= (m sum(x^2) - sum(x)^2) / m^2, and the deviation is at most the range
HalfStd(x) ==
    LET m == Len(x)
        r == m * Sum([i \in 1..m |-> x[i] * x[i]]) - Sum(x) * Sum(x)
        range == SetMax({ x[i] : i \in 1..m }) - SetMin({ x[i] : i \in 1..m })
    IN  SetMin({ k \in 0..range : 4 * k * k >= (r + m * m - 1) \div (m * m) })

\* _find_wrist_velocity_peak(velocities, after_frame), after_frame an int:
\* the frames it can return, each None or <<frame>>.
FindWristVelocityPeak(velocities, after_frame) ==
    IF after_frame >= Len(velocities) - 5 THEN {None}
    ELSE LET search_region == SubSeq(velocities, after_frame + 1, Len(velocities))
         IN  { IF peaks = {} THEN Some(after_frame + ArgMax(search_region) - 1)
               ELSE LET top == SetMax({ search_region[p] : p \in peaks })
                    IN  Some(after_frame + SetMin({ p \in peaks : search_region[p] = top }) - 1)
               : peaks \in FindPeaks(search_region, HalfStd(search_region), 3) }

\* int(x) of the rational n/d: truncation toward zero
Trunc(n, d) == IF n >= 0 THEN n \div d ELSE -((-n) \div d)

SegNone == [kind |-> "none"]

SegRaise == [kind |-> "raise"]

ShotSegment(start_frame, contact_frame, end_frame, total_frames, duration_ms) ==
    [kind |-> "segment", start_frame |-> start_frame,
     contact_frame |-> contact_frame, end_frame |-> end_frame,
     total_frames |-> total_frames, duration_ms |-> duration_ms]

\* Mutant: the segment ends at contact, without the follow-through frames.
MakeSegment_EndAtContact(n, rate, start, contact) ==
    IF start = None \/ contact = None THEN SegNone
    ELSE IF Get(start) >= Get(contact) THEN SegNone
    ELSE LET total_frames == Get(contact) - Get(start)
             duration_ms == IF rate[1] > 0
                            THEN RNorm(<<total_frames * 1000 * rate[2], rate[1]>>)
                            ELSE <<0, 1>>
         IN  ShotSegment(Get(start), Get(contact), Get(contact), total_frames,
                         duration_ms)

\* Lines 92-111 of segment_shot, for the frames the two searches returned.
MakeSegment(n, rate, start, contact) ==
    IF start = None \/ contact = None THEN SegNone
    ELSE IF Get(start) >= Get(contact) THEN SegNone
    ELSE LET start_frame == Get(start)
             contact_frame == Get(contact)
             end_frame == Min2(contact_frame + Trunc(rate[1], 10 * rate[2]), n - 1)
             total_frames == contact_frame - start_frame
             duration_ms == IF rate[1] > 0
                            THEN RNorm(<<total_frames * 1000 * rate[2], rate[1]>>)
                            ELSE <<0, 1>>
         IN  ShotSegment(start_frame, contact_frame, end_frame, total_frames,
                         duration_ms)

\* segment_shot(poses, fps) of ShotSegmenter(dominant_hand=hand): the set of
\* its outcomes (a ShotSegment, SegNone for None, SegRaise for an exception).
\* rate is fps, a rational.
SegmentShot(ps, rate, hand) ==
    IF Len(ps) < MIN_FRAMES_FOR_ANALYSIS THEN {SegNone}
    ELSE LET knee_angles == ComputeKneeAngles(ps, hand)
             wrist_velocities == ComputeWristVelocities(ps, hand)
         IN  IF knee_angles = None \/ wrist_velocities = None THEN {SegNone}
             ELSE LET knee_angles_smooth == SmoothSignal(Get(knee_angles))
                      wrist_velocities_smooth == SmoothSignal(Get(wrist_velocities))
                  IN  UNION {
                        IF start = None
                        THEN {SegRaise}   \* None >= int in _find_wrist_velocity_peak
                        ELSE { MakeSegment(Len(ps), rate, start, contact) :
                                 contact \in FindWristVelocityPeak(
                                                 wrist_velocities_smooth, Get(start)) }
                        : start \in FindKneeFlexionPeak(knee_angles_smooth) }


-----------------------------------------------------------------------------
(* biomechanics.py : BiomechanicsExtractor                                  *)
(*                                                                          *)
(* Velocity series are kept in units per 2*|dt| (dt = 1/fps): the positive  *)
(* factor does not move an argmax, and the features that report a velocity  *)
(* multiply it back in.                                                     *)

\* degrees(arctan2(dy, dx)) on the directions whose angle is a multiple of 45
Atan2Deg(dy, dx) ==
    CASE dy = 0 /\ dx >= 0 -> 0
      [] dy = 0 /\ dx < 0 -> 180
      [] dx = 0 /\ dy > 0 -> 90
      [] dx = 0 /\ dy < 0 -> -90
      [] dx > 0 /\ dy = dx -> 45
      [] dx > 0 /\ dy = -dx -> -45
      [] dx < 0 /\ dy = dx -> -135
      [] dx < 0 /\ dy = -dx -> 135

\* BiomechanicsExtractor._interpolate_nans: an all-NaN series becomes zeros.
ExtInterpolateNans(data) ==
    IF Valid(data) = {} THEN [i \in 1..Len(data) |-> Some(0)] ELSE FillNans(data)

\* BiomechanicsExtractor._smooth(data, window=5), times SavgolDen
Smooth(data) ==
    IF Len(data) < 5 THEN Unsmoothed(data) ELSE SavgolFilter(data, 5)

\* np.gradient(f, dt) times 2*dt, for a series of at least 2 samples
Gradient(f) ==
    LET n == Len(f)
    IN  [i \in 1..n |->
            IF i = 1 THEN 2 * (f[2] - f[1])
            ELSE IF i = n THEN 2 * (f[n] - f[n - 1])
            ELSE f[i + 1] - f[i - 1]]

AbsSeq(f) == [i \in 1..Len(f) |-> Abs(f[i])]

SeqMax(f) == SetMax({ f[i] : i \in 1..Len(f) })

SeqMin(f) == SetMin({ f[i] : i \in 1..Len(f) })

\* The keypoints named by keys all exist in kp
Present(kp, keys) == \A key \in keys : key \in DOMAIN kp

\* min(visibility of the keypoints named by keys)
MinVisibility(kp, keys) == SetMin({ kp[key].visibility : key \in keys })

\* Mutant: the segment bounds select list positions, not frame numbers.
ShotPoses_ByPosition(ps, seg) ==
    SubSeq(ps, Max2(seg.start_frame, 0) + 1, Min2(seg.end_frame + 1, Len(ps)))

\* The poses extract_all_features works on (lines 63-66)
ShotPoses(ps, seg) ==
    SelectSeq(ps, LAMBDA p : seg.start_frame <= p.frame_number
                             /\ p.frame_number <= seg.end_frame)

\* The angle samples of _compute_shoulder_rotation, in 1/Unit degrees
ShoulderRotationSamples(shot_poses) ==
    [i \in 1..Len(shot_poses) |->
        LET kp == shot_poses[i].keypoints
            keys == {"left_shoulder", "right_shoulder"}
        IN  IF ~Present(kp, keys) THEN None
            ELSE IF MinVisibility(kp, keys) < HalfVisibility THEN None
            ELSE Some(Unit * Atan2Deg(kp["right_shoulder"].z - kp["left_shoulder"].z,
                                      kp["right_shoulder"].x - kp["left_shoulder"].x))]

\* |fps| times a quantity q given in units per 2*|dt|, over a scale: q*|fps|/(2*scale)
PerSecond(q, scale, rate) == RNorm(<<q * Abs(rate[1]), 2 * scale * rate[2]>>)

\* _compute_shoulder_rotation(poses): None or <<[max_rotation, max_velocity]>>
ComputeShoulderRotation(shot_poses, rate) ==
    LET samples == ShoulderRotationSamples(shot_poses)
    IN  IF CountValid(samples) < 3 THEN None
        ELSE LET angles == Smooth(Values(ExtInterpolateNans(samples)))
                 angular_velocity == Gradient(angles)
             IN  Some([max_rotation |->
                          RNorm(<<SeqMax(AbsSeq(angles)), SavgolDen * Unit>>),
                       max_velocity |->
                          PerSecond(SeqMax(AbsSeq(angular_velocity)),
                                    SavgolDen * Unit, rate)])

\* The angle samples of _compute_elbow_extension / _compute_knee_flexion: the
\* angle at joint b of a-b-c, in 1/Unit degrees
JointAngleSamples(shot_poses, a, b, c) ==
    [i \in 1..Len(shot_poses) |->
        LET kp == shot_poses[i].keypoints
        IN  IF ~Present(kp, {a, b, c}) THEN None
            ELSE IF MinVisibility(kp, {a, b, c}) < HalfVisibility THEN None
            ELSE Some(ComputeJointAngle(kp[a], kp[b], kp[c]))]

\* _compute_elbow_extension(poses): None or <<[max_angle, max_velocity]>>
ComputeElbowExtension(shot_poses, dom, rate) ==
    LET samples == JointAngleSamples(shot_poses, dom \o "_shoulder",
                                     dom \o "_elbow", dom \o "_wrist")
    IN  IF CountValid(samples) < 3 THEN None
        ELSE LET angles == Smooth(Values(ExtInterpolateNans(samples)))
                 angular_velocity == Gradient(angles)
             IN  Some([max_angle |-> RNorm(<<SeqMax(angles), SavgolDen * Unit>>),
                       max_velocity |->
                          PerSecond(SeqMax(AbsSeq(angular_velocity)),
                                    SavgolDen * Unit, rate)])

Sign(i) == IF i > 0 THEN 1 ELSE IF i < 0 THEN -1 ELSE 0

\* Whether the joint is usable in pose i for the frame-to-frame speeds of
\* _compute_wrist_snap_timing
Seen(shot_poses, i, key) ==
    /\ key \in DOMAIN shot_poses[i].keypoints
    /\ shot_poses[i].keypoints[key].visibility > HalfVisibility

\* The frame-to-frame speed samples of _compute_wrist_snap_timing for one
\* joint, in units per |dt|: the displacement from the last usable position,
\* times the sign of fps.
StepSpeedSamples(shot_poses, key, rate) ==
    [i \in 1..Len(shot_poses) |->
        LET before == { j \in 1..(i - 1) : Seen(shot_poses, j, key) }
        IN  IF before # {} /\ Seen(shot_poses, i, key)
            THEN LET prev == shot_poses[SetMax(before)].keypoints[key]
                     cur == shot_poses[i].keypoints[key]
                 IN  Some(Norm(cur.x - prev.x, cur.y - prev.y) * Sign(rate[1]))
            ELSE None]

\* Mutant: the peaks are normalised by the number of poses, not by the
\* number of steps between them.
ComputeWristSnapTiming_PerPose(shot_poses, dom, rate) ==
    LET elbow == StepSpeedSamples(shot_poses, dom \o "_elbow", rate)
        wrist == StepSpeedSamples(shot_poses, dom \o "_wrist", rate)
        total_frames == Len(shot_poses)
    IN  IF CountValid(elbow) < 3 \/ CountValid(wrist) < 3 THEN None
        ELSE IF total_frames <= 1 THEN None
        ELSE LET elbow_peak_frame == ArgMax(Smooth(Values(ExtInterpolateNans(elbow)))) - 1
                 wrist_peak_frame == ArgMax(Smooth(Values(ExtInterpolateNans(wrist)))) - 1
             IN  Some(RNorm(<<(wrist_peak_frame - elbow_peak_frame) * 100,
                              total_frames>>))

\* _compute_wrist_snap_timing(poses, segment): None or <<percentage>>
ComputeWristSnapTiming(shot_poses, dom, rate) ==
    LET elbow == StepSpeedSamples(shot_poses, dom \o "_elbow", rate)
        wrist == StepSpeedSamples(shot_poses, dom \o "_wrist", rate)
        total_frames == Len(shot_poses)
    IN  IF CountValid(elbow) < 3 \/ CountValid(wrist) < 3 THEN None
        ELSE IF total_frames <= 1 THEN None
        ELSE LET elbow_peak_frame == ArgMax(Smooth(Values(ExtInterpolateNans(elbow)))) - 1
                 wrist_peak_frame == ArgMax(Smooth(Values(ExtInterpolateNans(wrist)))) - 1
             IN  Some(RNorm(<<(wrist_peak_frame - elbow_peak_frame) * 100,
                              total_frames - 1>>))

FourLines == {"left_shoulder", "right_shoulder", "left_hip", "right_hip"}

\* _compute_hip_shoulder_separation(poses): None or <<degrees>>
ComputeHipShoulderSeparation(shot_poses) ==
    LET samples ==
            [i \in 1..Len(shot_poses) |->
                LET kp == shot_poses[i].keypoints
                IN  IF ~Present(kp, FourLines) THEN None
                    ELSE IF MinVisibility(kp, FourLines) < HalfVisibility THEN None
                    ELSE Some(Unit * Abs(
                            Atan2Deg(kp["right_shoulder"].y - kp["left_shoulder"].y,
                                     kp["right_shoulder"].x - kp["left_shoulder"].x)
                            - Atan2Deg(kp["right_hip"].y - kp["left_hip"].y,
                                       kp["right_hip"].x - kp["left_hip"].x)))]
    IN  IF CountValid(samples) < 3 THEN None
        ELSE Some(RNorm(<<SeqMax(Values(ExtInterpolateNans(samples))), Unit>>))

\* _compute_knee_flexion(poses): None or <<degrees>>
ComputeKneeFlexion(shot_poses, dom) ==
    LET samples == JointAngleSamples(shot_poses, dom \o "_hip", dom \o "_knee",
                                     dom \o "_ankle")
    IN  IF CountValid(samples) < 3 THEN None
        ELSE Some(RNorm(<<SeqMin(Values(ExtInterpolateNans(samples))), Unit>>))

BothHips == {"left_hip", "right_hip"}

\* _compute_com_vertical_displacement(poses): None or <<pixels>>.  The
\* samples are twice the mean hip height.
ComputeComVerticalDisplacement(shot_poses) ==
    LET samples ==
            [i \in 1..Len(shot_poses) |->
                LET kp == shot_poses[i].keypoints
                IN  IF Present(kp, BothHips)
                       /\ MinVisibility(kp, BothHips) > HalfVisibility
                    THEN Some(kp["left_hip"].y + kp["right_hip"].y)
                    ELSE None]
    IN  IF CountValid(samples) < 3 THEN None
        ELSE LET com_y == Values(ExtInterpolateNans(samples))
             IN  Some(RNorm(<<SeqMax(com_y) - SeqMin(com_y), 2>>))

\* The angle samples of _segment_rotation_velocity, in 1/Unit degrees
RotationSamples(shot_poses, part) ==
    [i \in 1..Len(shot_poses) |->
        LET kp == shot_poses[i].keypoints
            left_key == "left_" \o part
            right_key == "right_" \o part
        IN  IF Present(kp, {left_key, right_key})
               /\ MinVisibility(kp, {left_key, right_key}) > HalfVisibility
            THEN Some(Unit * Atan2Deg(kp[right_key].y - kp[left_key].y,
                                      kp[right_key].x - kp[left_key].x))
            ELSE None]

\* _segment_rotation_velocity(poses, segment): None or <<series>>
SegmentRotationVelocity(shot_poses, part) ==
    LET samples == RotationSamples(shot_poses, part)
    IN  IF CountValid(samples) < 3 THEN None
        ELSE Some(AbsSeq(Gradient(Smooth(Values(ExtInterpolateNans(samples))))))

\* One coordinate of the positions of _segment_velocity
PositionSamples(shot_poses, joint_key, c) ==
    [i \in 1..Len(shot_poses) |->
        IF Seen(shot_poses, i, joint_key)
        THEN Some(IF c = "x" THEN shot_poses[i].keypoints[joint_key].x
                             ELSE shot_poses[i].keypoints[joint_key].y)
        ELSE None]

\* _segment_velocity(poses, joint_key): None or <<series>>
SegmentVelocity(shot_poses, joint_key) ==
    LET xs == PositionSamples(shot_poses, joint_key, "x")
        ys == PositionSamples(shot_poses, joint_key, "y")
    IN  IF CountValid(xs) < 3 THEN None
        ELSE LET dx == Gradient(Values(ExtInterpolateNans(xs)))
                 dy == Gradient(Values(ExtInterpolateNans(ys)))
             IN  Some(Smooth([i \in 1..Len(dx) |-> Norm(dx[i], dy[i])]))

\* float(delay_frames / self.fps * 1000), fps # 0
DelayMs(delay_frames, rate) == RNorm(RDiv(<<delay_frames * 1000, 1>>, rate))

\* _compute_kinetic_chain_delays(poses, segment): None or <<results>>, results
\* a function from the keys that were computed to milliseconds
ComputeKineticChainDelays(shot_poses, dom, rate) ==
    LET hip_rot == SegmentRotationVelocity(shot_poses, "hip")
        shoulder_rot == SegmentRotationVelocity(shot_poses, "shoulder")
        elbow_vel == SegmentVelocity(shot_poses, dom \o "_elbow")
        wrist_vel == SegmentVelocity(shot_poses, dom \o "_wrist")
        keys == (IF hip_rot # None /\ shoulder_rot # None THEN {"hip_shoulder"} ELSE {})
                \cup (IF shoulder_rot # None /\ elbow_vel # None
                      THEN {"shoulder_elbow"} ELSE {})
                \cup (IF elbow_vel # None /\ wrist_vel # None
                      THEN {"elbow_wrist"} ELSE {})
        results ==
            [key \in keys |->
                CASE key = "hip_shoulder" ->
                        DelayMs(ArgMax(Get(shoulder_rot)) - ArgMax(Get(hip_rot)), rate)
                  [] key = "shoulder_elbow" ->
                        DelayMs(ArgMax(Get(elbow_vel)) - ArgMax(Get(shoulder_rot)), rate)
                  [] key = "elbow_wrist" ->
                        DelayMs(ArgMax(Get(wrist_vel)) - ArgMax(Get(elbow_vel)), rate)]
    IN  IF keys = {} THEN None ELSE Some(results)

\* features[name] = kinetic_delays.get(key, 0)
DelayFeature(kinetic_delays, key, name) ==
    << <<name, IF key \in DOMAIN kinetic_delays THEN kinetic_delays[key]
                                                ELSE <<0, 1>>>> >>

\* Whether a 1.0 / self.fps of extract_all_features is evaluated: each is
\* behind the 3-valid-samples test of its series.
DividesByFps(shot_poses, dom) ==
    \/ CountValid(ShoulderRotationSamples(shot_poses)) >= 3
    \/ CountValid(JointAngleSamples(shot_poses, dom \o "_shoulder", dom \o "_elbow",
                                    dom \o "_wrist")) >= 3
    \/ CountValid(RotationSamples(shot_poses, "hip")) >= 3
    \/ CountValid(RotationSamples(shot_poses, "shoulder")) >= 3
    \/ CountValid(PositionSamples(shot_poses, dom \o "_elbow", "x")) >= 3
    \/ CountValid(PositionSamples(shot_poses, dom \o "_wrist", "x")) >= 3

Raised == [kind |-> "raise", features |-> <<>>]

Returned(fs) == [kind |-> "return", features |-> fs]

\* BiomechanicsExtractor(dominant_hand=dom, fps=rate).extract_all_features(
\* ps, seg): Raised (ZeroDivisionError) or Returned(the dict, as the sequence
\* of its <<name, value>> items in insertion order).
ExtractAllFeatures(ps, seg, dom, rate) ==
    LET shot_poses == ShotPoses(ps, seg)
    IN  IF Len(shot_poses) < 5 THEN Returned(<<>>)
        ELSE IF rate[1] = 0 /\ DividesByFps(shot_poses, dom) THEN Raised
        ELSE LET shoulder_rotation == ComputeShoulderRotation(shot_poses, rate)
                 elbow_extension == ComputeElbowExtension(shot_poses, dom, rate)
                 wrist_timing == ComputeWristSnapTiming(shot_poses, dom, rate)
                 hip_shoulder_sep == ComputeHipShoulderSeparation(shot_poses)
                 knee_flexion == ComputeKneeFlexion(shot_poses, dom)
                 com_displacement == ComputeComVerticalDisplacement(shot_poses)
                 kinetic_delays == ComputeKineticChainDelays(shot_poses, dom, rate)
                 Item(name, value) ==
                    IF value = None THEN <<>> ELSE << <<name, Get(value)>> >>
             IN  Returned(
                   (IF shoulder_rotation = None THEN <<>>
                    ELSE << <<"shoulder_rotation_angle",
                              Get(shoulder_rotation).max_rotation>>,
                            <<"shoulder_angular_velocity",
                              Get(shoulder_rotation).max_velocity>> >>)
                   \o (IF elbow_extension = None THEN <<>>
                       ELSE << <<"elbow_extension_angle",
                                 Get(elbow_extension).max_angle>>,
                               <<"elbow_angular_velocity",
                                 Get(elbow_extension).max_velocity>> >>)
                   \o Item("wrist_snap_timing", wrist_timing)
                   \o Item("hip_shoulder_separation", hip_shoulder_sep)
                   \o Item("knee_flexion_angle", knee_flexion)
                   \o Item("com_vertical_displacement", com_displacement)
                   \o (IF kinetic_delays = None THEN <<>>
                       ELSE DelayFeature(Get(kinetic_delays), "hip_shoulder",
                                         "hip_shoulder_delay")
                            \o DelayFeature(Get(kinetic_delays), "shoulder_elbow",
                                            "shoulder_elbow_delay")
                            \o DelayFeature(Get(kinetic_delays), "elbow_wrist",
                                            "elbow_wrist_delay"))
                   \o << <<"swing_duration_ms", seg.duration_ms>> >>)

-----------------------------------------------------------------------------
(* Pose streams.                                                            *)
(*                                                                          *)
(* A right-handed player seen from the front.  The right knee bends from    *)
(* 180 through 135 to 90 degrees and back around frame `trough`; the left   *)
(* shoulder turns back two frames later; the right wrist swings forward     *)
(* around frame `swing`.  The right leg is poorly visible in the frames     *)
(* `legGap`, the right wrist in the frames `armGap`, the left hip at the   *)
(* constant visibility `farHip`.  An event is None when it does not happen. *)

Keypoint(x, y, z, visibility) == [x |-> x, y |-> y, z |-> z, visibility |-> visibility]

FramePose(frame_number, keypoints) ==
    [frame_number |-> frame_number, keypoints |-> keypoints]

JointNames ==
    {"left_shoulder", "right_shoulder", "left_elbow", "right_elbow", "left_wrist",
     "right_wrist", "left_hip", "right_hip", "left_knee", "right_knee",
     "left_ankle", "right_ankle"}

Near(event, frame, d) == event # None /\ Abs(frame - Get(event)) = d

StreamKeypoint(p, frame, joint) ==
    LET u == Unit
        seen == 9
        leg == IF frame \in p.legGap THEN p.lowVis ELSE seen
        arm == IF frame \in p.armGap THEN p.lowVis ELSE seen
        turned == p.trough # None /\ frame >= Get(p.trough) + 2
        reach == IF p.swing = None \/ frame < Get(p.swing) THEN 0
                 ELSE IF frame = Get(p.swing) THEN u ELSE 2 * u
    IN  CASE joint = "right_hip" -> Keypoint(2 * u, 0, 0, leg)
          [] joint = "right_knee" -> Keypoint(2 * u, 2 * u, 0, leg)
          [] joint = "right_ankle" ->
                IF Near(p.trough, frame, 0) THEN Keypoint(4 * u, 2 * u, 0, leg)
                ELSE IF Near(p.trough, frame, 1) THEN Keypoint(4 * u, 4 * u, 0, leg)
                ELSE Keypoint(2 * u, 4 * u, 0, leg)
          [] joint = "right_shoulder" -> Keypoint(2 * u, -6 * u, 0, seen)
          [] joint = "right_elbow" -> Keypoint(2 * u, -8 * u, 0, seen)
          [] joint = "right_wrist" -> Keypoint(4 * u + reach, -8 * u, 0, arm)
          [] joint = "left_hip" -> Keypoint(-2 * u, 0, 0, p.farHip)
          [] joint = "left_knee" -> Keypoint(-2 * u, 2 * u, 0, seen)
          [] joint = "left_ankle" -> Keypoint(-2 * u, 4 * u, 0, seen)
          [] joint = "left_shoulder" ->
                IF turned THEN Keypoint(-2 * u, -10 * u, -4 * u, seen)
                ELSE Keypoint(-2 * u, -6 * u, 0, seen)
          [] joint = "left_elbow" -> Keypoint(-2 * u, -8 * u, 0, seen)
          [] joint = "left_wrist" -> Keypoint(-4 * u, -8 * u, 0, seen)

Stream(p) ==
    [i \in 1..p.n |->
        FramePose(i - 1, [joint \in JointNames |-> StreamKeypoint(p, i - 1, joint)])]


-----------------------------------------------------------------------------
(* Comparator sessions: a ReferenceComparator is constructed, then either   *)
(* _classify_severity is called directly, or a feature vector is built and  *)
(* compare() and compute_similarity_score() are called on it, or            *)
(* compute_similarity_score() is called on a hand-made metric list.         *)

MaxFeatures == 2

MaxMetrics == 2

MaxDiffTenths == 70

\* Names a caller may put in the feature vector: known ones of either
\* higher_is_better kind, and names the profile does not know.
PutNames == {"shoulder_rotation_angle", "wrist_snap_timing", "swing_duration_ms",
             "racket_speed"}

\* A user value sits k half-tolerances plus e hundredths from the built-in
\* reference.
HalfTols == {-5, -2, 0, 1, 3, 5}

Hundredths == {0, 4}

UserValue(name, k, e) ==
    IF name \in KnownFeatures
    THEN <<100 * FEATURE_METADATA[name].reference
             + 50 * k * FEATURE_METADATA[name].tolerance + e, 100>>
    ELSE <<100 * k + e, 100>>

Overrides ==
    { NoOverride,
      MalformedOverride,
      DictOverride([shoulder_rotation_angle |-> [reference |-> <<4506, 100>>],
                    wrist_snap_timing |-> [reference |-> <<0, 1>>],
                    knee_flexion_angle |-> [display_name |-> "Knee"]]) }

Tolerances == { <<3, 1>>, <<10, 1>>, <<5, 2>> }

HigherIsBetter == {"True", "False", "None"}

\* Hand-made metric lists: names and differences (in tenths).
RawNames == {"wrist_snap_timing", "com_vertical_displacement", "racket_speed"}

RawDiffs == {-450, -7, 0, 61, 900}

FeatureKeys(fs) == { fs[i][1] : i \in 1..Len(fs) }

\* A hand-made BiomechanicsMetric: only name and difference are read by
\* compute_similarity_score.
RawMetric(name, d) ==
    [name |-> name, display_name |-> name, user_value |-> d,
     reference_value |-> 0, unit |-> "", difference |-> d,
     difference_percent |-> 0, severity |-> "low", description |-> ""]

\* No analysis is running.
IdleRun ==
    /\ poses = <<>>
    /\ fps = <<30, 1>>
    /\ dominant_hand = "right"
    /\ segment = SegNone
    /\ pc = "idle"
    /\ calls = <<>>
    /\ response = None
    /\ video = "ok"
    /\ override = NoOverride

InitCmp ==
    /\ cpc = "new"
    /\ reference = None
    /\ features = <<>>
    /\ metrics = <<>>
    /\ score = None
    /\ sev = None
    /\ IdleRun
    /\ IdleSig
    /\ IdleShare

\* ReferenceComparator(reference_path)
Construct(custom) ==
    /\ cpc = "new"
    /\ IF LoadReferenceRaises(custom)
       THEN cpc' = "raised" /\ UNCHANGED reference
       ELSE cpc' = "build" /\ reference' = Some(LoadReference(custom))
    /\ override' = custom
    /\ UNCHANGED <<poses, fps, dominant_hand, segment, pc, calls, response, video>>
    /\ UNCHANGED <<features, metrics, score, sev>>
    /\ UNCHANGED <<sigVars, shareVars>>

\* features[name] = value, for a key not yet in the dict
PutFeature(name, k, e) ==
    /\ cpc = "build"
    /\ metrics = <<>>
    /\ Len(features) < MaxFeatures
    /\ name \notin FeatureKeys(features)
    /\ features' = Append(features, <<name, UserValue(name, k, e)>>)
    /\ UNCHANGED <<runVars, cpc, reference, metrics, score, sev>>
    /\ UNCHANGED <<sigVars, shareVars>>

\* The full vector extract_all_features can return, in its insertion order,
\* followed by a name the profile does not know.
PutAllFeatures(k, e) ==
    /\ cpc = "build"
    /\ metrics = <<>>
    /\ features = <<>>
    /\ features' = [i \in 1..Len(FeatureNames) |->
                      <<FeatureNames[i], UserValue(FeatureNames[i], k, e)>>]
                   \o << <<"racket_speed", UserValue("racket_speed", k, e)>> >>
    /\ UNCHANGED <<runVars, cpc, reference, metrics, score, sev>>
    /\ UNCHANGED <<sigVars, shareVars>>

DoCompare ==
    /\ cpc = "build"
    /\ metrics = <<>>
    /\ metrics' = Compare(Get(reference), features)
    /\ cpc' = "compared"
    /\ UNCHANGED <<runVars, reference, features, score, sev>>
    /\ UNCHANGED <<sigVars, shareVars>>

PutMetric(name, d) ==
    /\ cpc \in {"build", "raw"}
    /\ features = <<>>
    /\ Len(metrics) < MaxMetrics
    /\ metrics' = Append(metrics, RawMetric(name, d))
    /\ cpc' = "raw"
    /\ UNCHANGED <<runVars, reference, features, score, sev>>
    /\ UNCHANGED <<sigVars, shareVars>>

DoScore ==
    /\ cpc \in {"compared", "raw"}
    /\ score' = Some(ComputeSimilarityScore(metrics))
    /\ cpc' = "scored"
    /\ UNCHANGED <<runVars, reference, features, metrics, sev>>
    /\ UNCHANGED <<sigVars, shareVars>>

DoClassify(d, tol, hib) ==
    /\ cpc = "build"
    /\ features = <<>>
    /\ metrics = <<>>
    /\ sev' = Some([difference |-> <<d, 10>>, tolerance |-> tol,
                    higher_is_better |-> hib,
                    severity |-> ClassifySeverity(<<d, 10>>, tol, hib)])
    /\ cpc' = "classified"
    /\ UNCHANGED <<runVars, reference, features, metrics, score>>
    /\ UNCHANGED <<sigVars, shareVars>>

NextCmp ==
    \/ \E custom \in Overrides : Construct(custom)
    \/ \E name \in PutNames, k \in HalfTols, e \in Hundredths : PutFeature(name, k, e)
    \/ \E k \in HalfTols, e \in Hundredths : PutAllFeatures(k, e)
    \/ DoCompare
    \/ \E name \in RawNames, d \in RawDiffs : PutMetric(name, d)
    \/ DoScore
    \/ \E d \in -MaxDiffTenths..MaxDiffTenths, tol \in Tolerances,
          hib \in HigherIsBetter : DoClassify(d, tol, hib)

SpecCmp == InitCmp /\ [][NextCmp]_vars

-----------------------------------------------------------------------------
(* Claims about the comparator, checked under SpecCmp *)

\* C2: for every difference, tolerance > 0 and higher_is_better,
\* _classify_severity returns LOW when |difference| <= tolerance; within
\* 2*tolerance LOW if the deviation is favorable and MEDIUM otherwise; beyond
\* 2*tolerance MEDIUM if favorable and HIGH otherwise.
C2_SeverityBands ==
    sev # None =>
        LET c == Get(sev)
            d == c.difference
            t == c.tolerance
            absd == Abs(d[1])
            favorable == \/ c.higher_is_better = "True" /\ d[1] > 0
                         \/ c.higher_is_better = "False" /\ d[1] < 0
            within1 == absd * t[2] <= t[1] * d[2]
            within2 == absd * t[2] <= 2 * t[1] * d[2]
        IN  c.severity = IF within1 THEN "low"
                         ELSE IF within2 THEN (IF favorable THEN "low" ELSE "medium")
                         ELSE (IF favorable THEN "medium" ELSE "high")

\* C2 witness: all three bands were classified in both directions; this one is
\* an unfavorable deviation beyond twice the tolerance graded HIGH.
C2_Witness ==
    /\ sev # None
    /\ Get(sev).higher_is_better = "False"
    /\ Get(sev).difference[1] > 0
    /\ RLt(RMulInt(Get(sev).tolerance, 2), Get(sev).difference)
    /\ Get(sev).severity = "high"

\* The metric compare() emitted for feature `name`, as a set (empty if none).
MetricsOf(name) == { i \in 1..Len(metrics) : metrics[i].name = name }

\* C3: severity is never HIGH when higher_is_better is true and
\* difference > 0, whatever the magnitude; so no metric compare() produces for
\* a higher-is-better feature whose user value exceeds the reference is HIGH.
C3_FavorableNeverHigh ==
    /\ sev # None /\ Get(sev).higher_is_better = "True" /\ Get(sev).difference[1] > 0
          => Get(sev).severity # "high"
    /\ cpc \in {"compared", "scored"} /\ features # <<>> =>
          \A i \in 1..Len(features) :
              LET name == features[i][1]
              IN  (/\ name \in KnownFeatures
                   /\ FEATURE_METADATA[name].higher_is_better = "True"
                   /\ RLt(Get(reference)[name], features[i][2]))
                  => \A j \in MetricsOf(name) : metrics[j].severity # "high"

\* C3 witness: compare() graded a higher-is-better feature lying more than
\* twice the tolerance above the reference.
C3_Witness ==
    /\ cpc = "compared"
    /\ \E i \in 1..Len(features) :
          /\ features[i][1] = "shoulder_rotation_angle"
          /\ RLt(RInt(20), RSub(features[i][2], Get(reference)[features[i][1]]))
          /\ \E j \in MetricsOf(features[i][1]) : metrics[j].severity = "medium"

\* C4: compute_similarity_score is in [0, 100] for every metric list, 0.0
\* for the empty list, and exactly 100.0 when every metric of a non-empty
\* list has difference 0.
C4_ScoreRange ==
    score # None =>
        /\ 0 <= Get(score) /\ Get(score) <= 1000
        /\ metrics = <<>> => Get(score) = 0
        /\ (metrics # <<>> /\ \A i \in 1..Len(metrics) : metrics[i].difference = 0)
              => Get(score) = 1000

\* C4 witness: a list of several metrics, all with difference 0, was scored.
C4_Witness ==
    /\ score # None
    /\ Len(metrics) >= 2
    /\ \A i \in 1..Len(metrics) : metrics[i].difference = 0
    /\ Get(score) = 1000

\* The weight and tolerance the specification gives a metric name: the
\* built-in table's, or weight 1.0 (and the code's tolerance 10) for a name
\* without one.
C5_Weight10(name) ==
    IF name \in KnownFeatures THEN FEATURE_WEIGHTS[name] ELSE 10

C5_Tol(name) ==
    IF name \in KnownFeatures THEN FEATURE_METADATA[name].tolerance ELSE 10

\* 120 times the per-feature score 100 * (1 - min(|d| / (2 tol), 1)); d in
\* tenths.  12000 is a common multiple of every 20 * tolerance.
C5_Score120(m) ==
    12000 - Min2(Abs(m.difference) * (12000 \div (20 * C5_Tol(m.name))), 12000)

RECURSIVE C5_SumW(_)
C5_SumW(ms) == IF ms = <<>> THEN 0 ELSE C5_Weight10(Head(ms).name) + C5_SumW(Tail(ms))

RECURSIVE C5_SumWS(_)
C5_SumWS(ms) ==
    IF ms = <<>> THEN 0
    ELSE C5_Weight10(Head(ms).name) * C5_Score120(Head(ms)) + C5_SumWS(Tail(ms))

\* C5: for a non-empty list the score is the weighted mean of the per-feature
\* scores, rounded to 1 decimal; a single metric scores its own per-feature
\* score (rounded to 1 decimal), whatever its weight.
C5_WeightedMean ==
    (score # None /\ metrics # <<>>) =>
        /\ Get(score) = RoundDiv(C5_SumWS(metrics), 12 * C5_SumW(metrics))
        /\ Len(metrics) = 1 => Get(score) = RoundDiv(C5_Score120(metrics[1]), 12)

\* C5 witness: two metrics of different weight and different per-feature
\* score were averaged.
C5_Witness ==
    /\ score # None
    /\ Len(metrics) = 2
    /\ C5_Weight10(metrics[1].name) # C5_Weight10(metrics[2].name)
    /\ C5_Score120(metrics[1]) # C5_Score120(metrics[2])
    /\ C5_Score120(metrics[1]) \notin {0, 12000}

KnownNamesOf(fs) ==
    LET names == [i \in 1..Len(fs) |-> fs[i][1]]
    IN  SelectSeq(names, LAMBDA n : n \in KnownFeatures)

\* C6: compare() emits exactly one metric per feature name present in both
\* the input vector and the profile, in input order, nothing for unknown
\* names, and never more than the 12 known features.
C6_OneMetricPerKnownFeature ==
    cpc \in {"compared", "scored"} /\ features # <<>> =>
        /\ [i \in 1..Len(metrics) |-> metrics[i].name] = KnownNamesOf(features)
        /\ Len(metrics) <= 12

\* C6 witness: the 12 known features and an unknown name were compared.
C6_Witness ==
    /\ cpc = "compared"
    /\ Len(features) = 13
    /\ Len(metrics) = 12
    /\ \E i \in 1..Len(features) : features[i][1] \notin KnownFeatures

\* The features whose reference the override file defines.
C11_Overridden ==
    IF override.kind = "dict"
    THEN {key \in DOMAIN override.data : "reference" \in DOMAIN override.data[key]}
    ELSE {}

\* The user value compare() read for the j-th emitted metric.
C11_UserValue(j) ==
    LET known == SelectSeq(features, LAMBDA f : f[1] \in KnownFeatures)
    IN  known[j][2]

\* C11: the effective reference is the built-in table for all 12 keys when
\* there is no override; with an override only the reference of the features
\* it defines is replaced, every other feature keeps its built-in reference,
\* and tolerance, higher_is_better, unit, display name and description of
\* every emitted metric come from the built-in table.
C11_EffectiveReference ==
    /\ reference # None =>
          /\ DOMAIN Get(reference) = KnownFeatures
          /\ \A key \in KnownFeatures :
                Get(reference)[key] =
                    IF key \in C11_Overridden
                    THEN override.data[key].reference
                    ELSE RInt(FEATURE_METADATA[key].reference)
    /\ cpc \in {"compared", "scored"} /\ features # <<>> =>
          \A j \in 1..Len(metrics) :
              LET m == metrics[j]
                  builtin == FEATURE_METADATA[m.name]
                  difference == RSub(C11_UserValue(j), Get(reference)[m.name])
              IN  /\ m.display_name = builtin.display_name
                  /\ m.unit = builtin.unit
                  /\ m.description = builtin.description
                  /\ m.reference_value = Round1(Get(reference)[m.name])
                  /\ m.severity = ClassifySeverity(difference, RInt(builtin.tolerance),
                                                   builtin.higher_is_better)

\* C11 witness: under an override file, a metric of an overridden feature and
\* a metric of a feature the file does not define were emitted; the file
\* also names a feature without giving it a reference.
C11_Witness ==
    /\ cpc = "compared"
    /\ override.kind = "dict"
    /\ \E key \in DOMAIN override.data : key \notin C11_Overridden
    /\ \E j \in 1..Len(metrics) :
          /\ metrics[j].name \in C11_Overridden
          /\ metrics[j].reference_value # 10 * FEATURE_METADATA[metrics[j].name].reference
    /\ \E j \in 1..Len(metrics) :
          /\ metrics[j].name \notin C11_Overridden
          /\ metrics[j].reference_value = 10 * FEATURE_METADATA[metrics[j].name].reference

\* C12: difference_percent is difference / reference * 100 rounded to one
\* decimal when the reference is not 0, and 100 (difference not 0) or 0
\* (difference 0) when the reference is 0; under the default profile
\* shoulder_rotation_angle = 50.0 yields difference 5.0, difference_percent
\* 11.1 and severity LOW.
C12_DifferencePercent ==
    cpc \in {"compared", "scored"} /\ features # <<>> =>
        \A j \in 1..Len(metrics) :
            LET m == metrics[j]
                user == C11_UserValue(j)
                ref == Get(reference)[m.name]
                \* user - ref = dn / dd, ref = ref[1] / ref[2]
                dn == user[1] * ref[2] - ref[1] * user[2]
                dd == user[2] * ref[2]
                g == GCD(Abs(dn), dd)
                h == GCD(Abs(ref[1]), ref[2])
            IN  /\ ref[1] # 0 =>
                      m.difference_percent =
                          RoundDiv(1000 * (dn \div g) * (ref[2] \div h),
                                   (dd \div g) * (ref[1] \div h))
                /\ ref[1] = 0 =>
                      m.difference_percent = IF dn # 0 THEN 1000 ELSE 0
                /\ (/\ override.kind = "none"
                     /\ m.name = "shoulder_rotation_angle"
                     /\ user = <<5000, 100>>) =>
                      /\ m.difference = 50
                      /\ m.difference_percent = 111
                      /\ m.severity = "low"

\* C12 witness: the default profile compared shoulder_rotation_angle = 50.0
\* and emitted difference 5.0 and 11.1 percent.
C12_Witness ==
    /\ cpc = "compared"
    /\ override.kind = "none"
    /\ \E j \in 1..Len(metrics) :
          /\ metrics[j].name = "shoulder_rotation_angle"
          /\ C11_UserValue(j) = <<5000, 100>>
          /\ metrics[j].user_value = 500
          /\ metrics[j].difference_percent = 111

\* C13: every emitted metric satisfies difference = user_value -
\* reference_value on its own emitted, one-decimal fields, for every user
\* value and every effective reference, overridden ones included.
C13_DifferenceOfEmittedFields ==
    cpc \in {"compared", "scored"} /\ features # <<>> =>
        \A j \in 1..Len(metrics) :
            metrics[j].difference = metrics[j].user_value - metrics[j].reference_value

\* C13 under the built-in references, which are whole numbers: the emitted
\* fields do subtract.
C13_DefaultProfile ==
    cpc \in {"compared", "scored"} /\ features # <<>> =>
        \A j \in 1..Len(metrics) :
            metrics[j].name \notin C11_Overridden =>
                metrics[j].difference = metrics[j].user_value - metrics[j].reference_value

\* C26: the severity of every metric compare emits is consistent with the
\* metric's own emitted one-decimal difference and the feature's tolerance:
\* an emitted |difference| <= tolerance has severity LOW, and severity HIGH
\* has an emitted |difference| > 2 * tolerance and a per-feature score of 0.
C26_SeverityOfEmittedDifference ==
    cpc \in {"compared", "scored"} /\ features # <<>> =>
        \A j \in 1..Len(metrics) :
            LET m == metrics[j]
                tolerance == MetricTolerance(m)
            IN  /\ Abs(m.difference) <= 10 * tolerance => m.severity = "low"
                /\ m.severity = "high" =>
                      /\ Abs(m.difference) > 20 * tolerance
                      /\ FeatureScore(m)[1] = 0

\* What the code keeps of C26: the severity follows the unrounded
\* difference, and a HIGH metric scores 0.
C26_SeverityOfExactDifference ==
    cpc \in {"compared", "scored"} /\ features # <<>> =>
        \A j \in 1..Len(metrics) :
            LET m == metrics[j]
                tolerance == RInt(MetricTolerance(m))
                difference == RSub(C11_UserValue(j), Get(reference)[m.name])
            IN  /\ RLe(RAbs(difference), tolerance) => m.severity = "low"
                /\ m.severity = "high" =>
                      /\ RLt(RMulInt(tolerance, 2), RAbs(difference))
                      /\ FeatureScore(m)[1] = 0

-----------------------------------------------------------------------------
(* Segmenter and extractor sessions: segment_shot(poses, fps) is called on  *)
(* a ShotSegmenter(dominant_hand), then extract_all_features(poses,         *)
(* segment) on a BiomechanicsExtractor(dominant_hand, fps) if a segment     *)
(* came back.                                                               *)

MaxLen == 16

StreamParams(lengths, troughs, swings, legGaps, armGaps, lowVisibilities, farHips) ==
    [n : lengths, trough : troughs, swing : swings, legGap : legGaps,
     armGap : armGaps, lowVis : lowVisibilities, farHip : farHips]

\* Streams below and above the 15-frame minimum, with and without the two
\* events, with gaps of one or two frames at visibility 0.4 or exactly 0.5.
Streams ==
    { Stream(p) : p \in StreamParams(14..MaxLen,
                                     {None, <<3>>, <<8>>},
                                     {None, <<5>>, <<10>>, <<12>>},
                                     {{}, {4}, {4, 5}},
                                     {{}, {9}},
                                     {4, 5},
                                     {9, 1}) }

\* A 90-frame recording of a complete smash: the knee bottoms at frame 20
\* (90 degrees between neighbours of 135) and the wrist speed peaks at
\* frame 50.
SmashStream ==
    Stream([n |-> 90, trough |-> <<20>>, swing |-> <<50>>, legGap |-> {},
            armGap |-> {}, lowVis |-> 4, farHip |-> 9])

FrameRates == { <<30, 1>>, <<25, 1>>, <<2997, 100>>, <<0, 1>>, <<-30, 1>> }

Hands == {"right", "left"}

IdleCmp ==
    /\ cpc = "new"
    /\ reference = None
    /\ features = <<>>
    /\ metrics = <<>>
    /\ score = None
    /\ sev = None

InitSeg ==
    /\ IdleCmp
    /\ poses = <<>>
    /\ fps = <<30, 1>>
    /\ dominant_hand = "right"
    /\ segment = SegNone
    /\ pc = "new"
    /\ calls = <<>>
    /\ response = None
    /\ video = "ok"
    /\ override = NoOverride
    /\ IdleSig
    /\ IdleShare

\* ShotSegmenter(dominant_hand=hand).segment_shot(ps, rate)
CallSegmentShot(ps, rate, hand) ==
    /\ pc = "new"
    /\ poses' = ps
    /\ fps' = rate
    /\ dominant_hand' = hand
    /\ segment' \in SegmentShot(ps, rate, hand)
    /\ pc' = "segmented"
    /\ UNCHANGED <<cmpVars, calls, response, video, override>>
    /\ UNCHANGED <<sigVars, shareVars>>

\* BiomechanicsExtractor(dominant_hand, fps).extract_all_features(poses, segment)
CallExtractAllFeatures ==
    /\ pc = "segmented"
    /\ segment.kind = "segment"
    /\ LET result == ExtractAllFeatures(poses, segment, dominant_hand, fps)
       IN  /\ features' = result.features
           /\ pc' = IF result.kind = "raise" THEN "extract_raised" ELSE "extracted"
    /\ UNCHANGED <<cpc, reference, metrics, score, sev, poses, fps, dominant_hand,
                   segment, calls, response, video, override>>
    /\ UNCHANGED <<sigVars, shareVars>>

NextSeg ==
    \/ \E ps \in Streams \cup {SmashStream}, rate \in FrameRates, hand \in Hands :
          CallSegmentShot(ps, rate, hand)
    \/ CallExtractAllFeatures

SpecSeg == InitSeg /\ [][NextSeg]_vars

-----------------------------------------------------------------------------
(* Claims about the segmenter and the extractor, checked under SpecSeg *)

\* C1: every ShotSegment that segment_shot returns, for every pose stream and
\* every frame rate, satisfies start_frame < contact_frame <= end_frame and
\* total_frames = contact_frame - start_frame.
C1_SegmentValidity ==
    (pc # "new" /\ segment.kind = "segment") =>
        /\ segment.start_frame < segment.contact_frame
        /\ segment.contact_frame <= segment.end_frame
        /\ segment.total_frames = segment.contact_frame - segment.start_frame

\* The velocity series a kinetic-chain delay is computed from exist: each had
\* at least 3 valid samples over the poses of the segment.
C9_SeriesExist(name) ==
    LET shot_poses == ShotPoses(poses, segment)
        hip == CountValid(RotationSamples(shot_poses, "hip")) >= 3
        shoulder == CountValid(RotationSamples(shot_poses, "shoulder")) >= 3
        elbow == CountValid(PositionSamples(shot_poses, dominant_hand \o "_elbow",
                                            "x")) >= 3
        wrist == CountValid(PositionSamples(shot_poses, dominant_hand \o "_wrist",
                                            "x")) >= 3
    IN  CASE name = "hip_shoulder_delay" -> hip /\ shoulder
          [] name = "shoulder_elbow_delay" -> shoulder /\ elbow
          [] name = "elbow_wrist_delay" -> elbow /\ wrist

\* C9: the feature vector extract_all_features returns holds
\* hip_shoulder_delay, shoulder_elbow_delay or elbow_wrist_delay only if both
\* velocity series of that delay exist; a delay whose signal was unavailable
\* is omitted, never zero-filled.
C9_DelaysNeverZeroFilled ==
    pc = "extracted" =>
        \A i \in 1..Len(features) :
            features[i][1] \in {"hip_shoulder_delay", "shoulder_elbow_delay",
                                "elbow_wrist_delay"}
                => C9_SeriesExist(features[i][1])

\* Frames in which every keypoint named by keys is valid (visibility >= 0.5)
C10_ValidFrames(keys) ==
    Cardinality({ i \in 1..Len(poses) :
                    /\ Present(poses[i].keypoints, keys)
                    /\ \A key \in keys : poses[i].keypoints[key].visibility >= 5 })

C10_KneeFrames ==
    C10_ValidFrames({dominant_hand \o "_hip", dominant_hand \o "_knee",
                     dominant_hand \o "_ankle"})

C10_WristFrames == C10_ValidFrames({dominant_hand \o "_wrist"})

\* C10: segment_shot returns None, without raising, whenever the stream has
\* fewer than 15 poses, or fewer than 15 frames with a valid dominant
\* hip-knee-ankle triple, or fewer than 15 frames with a valid dominant wrist;
\* and every ShotSegment it returns has start_frame, contact_frame, end_frame,
\* total_frames and duration_ms all set.
C10_NoSegmentOnShortData ==
    pc # "new" =>
        /\ (Len(poses) < 15 \/ C10_KneeFrames < 15 \/ C10_WristFrames < 15)
              => segment = SegNone
        /\ segment.kind = "segment" =>
              /\ DOMAIN segment = {"kind", "start_frame", "contact_frame",
                                   "end_frame", "total_frames", "duration_ms"}
              /\ segment.start_frame \in Int
              /\ segment.contact_frame \in Int
              /\ segment.end_frame \in Int
              /\ segment.total_frames \in Int
              /\ segment.duration_ms[1] \in Int /\ segment.duration_ms[2] > 0

\* C10 witness: a stream of at least 15 poses with 15 valid knee triples but
\* only 14 valid wrists, in which both events happen, was refused.
C10_Witness ==
    /\ pc = "segmented"
    /\ Len(poses) >= 15
    /\ C10_KneeFrames >= 15
    /\ C10_WristFrames = 14
    /\ dominant_hand = "right"
    /\ poses[4].keypoints["right_ankle"].x # poses[1].keypoints["right_ankle"].x
    /\ poses[Len(poses)].keypoints["right_wrist"].x # poses[1].keypoints["right_wrist"].x
    /\ segment = SegNone

\* The knee angle of the dominant leg in a frame of the stream, in degrees.
C14_KneeDegrees(frame) ==
    LET kp == poses[frame + 1].keypoints
    IN  JointAngle(<<kp["right_hip"].x, kp["right_hip"].y>>,
                   <<kp["right_knee"].x, kp["right_knee"].y>>,
                   <<kp["right_ankle"].x, kp["right_ankle"].y>>)

\* C14: at 30 fps, a 90-frame stream whose knee trough bottoms at frame 20
\* (90 degrees, neighbours at 100 or more) and whose wrist speed peaks
\* sharply at frame 50 is segmented as start_frame 20, contact_frame 50,
\* end_frame 53, total_frames 30, duration_ms 1000.0.
C14_SmashScenario ==
    (/\ pc # "new"
     /\ poses = SmashStream
     /\ fps = <<30, 1>>
     /\ dominant_hand = "right") =>
        segment = ShotSegment(20, 50, 53, 30, <<1000, 1>>)

\* C14 witness: the scenario stream was segmented at 30 fps and a segment
\* came back; its knee angle at frame 20 is 90 degrees between neighbours
\* of at least 100.
C14_Witness ==
    /\ pc = "segmented"
    /\ Len(poses) = 90
    /\ fps = <<30, 1>>
    /\ dominant_hand = "right"
    /\ C14_KneeDegrees(20) = 90
    /\ C14_KneeDegrees(19) >= 100 /\ C14_KneeDegrees(21) >= 100
    /\ segment.kind = "segment"
    /\ segment.contact_frame = 50

\* C18: for every successful segmentation at a frame rate fps > 0,
\* end_frame = min(contact_frame + round(0.1 * fps), last frame index) and
\* duration_ms = total_frames / fps * 1000, also where 0.1 * fps is not an
\* integer (25, 29.97).  round is Python's round (half to even).
C18_EndFrameAndDuration ==
    (pc # "new" /\ segment.kind = "segment" /\ fps[1] > 0) =>
        /\ segment.end_frame =
               Min2(segment.contact_frame + RoundDiv(fps[1], 10 * fps[2]),
                    Len(poses) - 1)
        /\ segment.duration_ms =
               RNorm(<<segment.total_frames * 1000 * fps[2], fps[1]>>)

\* What the code keeps instead: the follow-through is 0.1 * fps truncated.
C18_TruncatedFollowThrough ==
    (pc # "new" /\ segment.kind = "segment" /\ fps[1] > 0) =>
        /\ segment.end_frame =
               Min2(segment.contact_frame + (fps[1] \div (10 * fps[2])),
                    Len(poses) - 1)
        /\ segment.duration_ms =
               RNorm(<<segment.total_frames * 1000 * fps[2], fps[1]>>)

\* Every joint of `keys` has visibility at least 0.5 in pose i.
C22_Visible(i, keys) ==
    \A key \in keys : poses[i].keypoints[key].visibility >= HalfVisibility

\* C22: in every computation of the segmenter and the extractor a keypoint
\* is valid exactly when its visibility is >= 0.5: the knee-angle, wrist
\* speed, elbow and wrist position, and hip and shoulder rotation-line
\* signals have a sample at a pose exactly when the joints they read are
\* at visibility 0.5 or more there.
C22_ValidAtHalf ==
    pc # "new" =>
        \A i \in 1..Len(poses) :
            LET dom == dominant_hand
            IN  /\ (KneeAngleSamples(poses, dom)[i] # None)
                      <=> C22_Visible(i, {dom \o "_hip", dom \o "_knee", dom \o "_ankle"})
                /\ (WristSamples(poses, dom, "x")[i] # None)
                      <=> C22_Visible(i, {dom \o "_wrist"})
                /\ (PositionSamples(poses, dom \o "_elbow", "x")[i] # None)
                      <=> C22_Visible(i, {dom \o "_elbow"})
                /\ (PositionSamples(poses, dom \o "_wrist", "x")[i] # None)
                      <=> C22_Visible(i, {dom \o "_wrist"})
                /\ (RotationSamples(poses, "hip")[i] # None)
                      <=> C22_Visible(i, BothHips)
                /\ (RotationSamples(poses, "shoulder")[i] # None)
                      <=> C22_Visible(i, {"left_shoulder", "right_shoulder"})

\* The part of C22 that holds: the angle signals (knee angle, shoulder
\* rotation, elbow extension) take a joint at visibility 0.5 as valid.
C22_AngleSignalsAtHalf ==
    pc # "new" =>
        \A i \in 1..Len(poses) :
            LET dom == dominant_hand
            IN  /\ (KneeAngleSamples(poses, dom)[i] # None)
                      <=> C22_Visible(i, {dom \o "_hip", dom \o "_knee", dom \o "_ankle"})
                /\ (ShoulderRotationSamples(poses)[i] # None)
                      <=> C22_Visible(i, {"left_shoulder", "right_shoulder"})
                /\ (JointAngleSamples(poses, dom \o "_shoulder", dom \o "_elbow",
                                      dom \o "_wrist")[i] # None)
                      <=> C22_Visible(i, {dom \o "_shoulder", dom \o "_elbow",
                                          dom \o "_wrist"})

\* C27: for every frame rate for which segment_shot returns a segment,
\* fps <= 0 included, extract_all_features on that segment with the same
\* frame rate returns a feature mapping; no stage of segmentation or feature
\* extraction raises, whatever the frame rate.
C27_NoStageRaises ==
    /\ segment.kind # "raise"
    /\ pc # "extract_raised"

\* What the code keeps of C27: segmentation returns for every frame rate,
\* and extraction returns for every frame rate but 0.
C27_RaisesOnlyAtZero ==
    /\ segment.kind # "raise"
    /\ pc = "extract_raised" => fps[1] = 0
    /\ (pc = "segmented" /\ segment.kind = "segment" /\ fps[1] # 0) =>
          ExtractAllFeatures(poses, segment, dominant_hand, fps).kind = "return"

\* The start frames segment_shot's start search can return on the stream
\* that was segmented, once both valid-sample checks passed.
C29_Starts ==
    FindKneeFlexionPeak(SmoothSignal(Get(ComputeKneeAngles(poses, dominant_hand))))

C29_PassesChecks ==
    /\ pc # "new"
    /\ Len(poses) >= MIN_FRAMES_FOR_ANALYSIS
    /\ ComputeKneeAngles(poses, dominant_hand) # None
    /\ ComputeWristVelocities(poses, dominant_hand) # None

\* C29: on every stream of at least 15 poses that passes the valid-sample
\* checks the start search never returns None and returns an index in
\* [0, floor(0.6 * n)), so segment_shot never hands a None start_frame to
\* the contact search and never raises there.
C29_StartAlwaysFound ==
    C29_PassesChecks =>
        /\ \A start \in C29_Starts :
              /\ start # None
              /\ 0 <= Get(start)
              /\ 10 * Get(start) < 6 * Len(poses)
        /\ segment.kind # "raise"

\* C29 witness: a stream that passed the checks was segmented from a start
\* frame past the first frames of the search window.
C29_Witness ==
    /\ C29_PassesChecks
    /\ segment.kind = "segment"
    /\ segment.start_frame >= 3
    /\ Some(segment.start_frame) \in C29_Starts

-----------------------------------------------------------------------------
(* routes.py : analyze_video.  One action per step of the handler; `calls`  *)
(* records the stage calls in the order they are made.                      *)

\* dominant_hand.lower(), on the strings the model submits
Lower(str) ==
    CASE str = "Right" -> "right"
      [] str = "LEFT" -> "left"
      [] OTHER -> str

\* DominantHand(value) raises ValueError
DominantHandRaises(value) == value \notin {"left", "right"}

HttpError(status, detail) ==
    [status |-> status, success |-> FALSE, message |-> detail,
     shot_segment |-> SegNone, metrics |-> <<>>, technique_similarity_score |-> 0,
     pose_data |-> <<>>]

AnalysisResponse(success, message, shot_segment, ms, similarity_score, pose_data) ==
    [status |-> 200, success |-> success, message |-> message,
     shot_segment |-> shot_segment, metrics |-> ms,
     technique_similarity_score |-> similarity_score, pose_data |-> pose_data]

\* The except clause of analyze_video: HTTP 500, "Analysis failed: " + str(e)
AnalysisFailed(exception) == HttpError(500, "Analysis failed: " \o exception)

HandInputs == {"right", "left", "Right", "LEFT", "both", ""}

VideoStates == {"missing", "unreadable", "ok"}

\* What the pose extractor can return: too few poses for the handler, too few
\* for the segmenter, and full streams with and without the two events.
VideoStreams ==
    { Stream(p) : p \in StreamParams({9, 14, MaxLen},
                                     {None, <<3>>},
                                     {None, <<5>>, <<10>>},
                                     {{}}, {{}}, {4}, {9, 1}) }

VideoRates == { <<30, 1>>, <<0, 1>>, <<-30, 1>> }

Init ==
    /\ IdleCmp
    /\ poses = <<>>
    /\ fps = <<30, 1>>
    /\ segment = SegNone
    /\ pc = "find_video"
    /\ calls = <<>>
    /\ response = None
    /\ video \in VideoStates
    /\ dominant_hand \in HandInputs
    /\ override \in Overrides
    /\ IdleSig
    /\ IdleShare

\* Lines 92-104: look the uploaded file up
AnalyzeFindVideo ==
    /\ pc = "find_video"
    /\ IF video = "missing"
       THEN /\ response' = Some(HttpError(404, "Video not found"))
            /\ pc' = "done"
       ELSE /\ pc' = "validate_hand"
            /\ UNCHANGED response
    /\ UNCHANGED <<cmpVars, poses, fps, dominant_hand, segment, calls, video, override>>
    /\ UNCHANGED <<sigVars, shareVars>>

\* Lines 106-113: validate dominant_hand
AnalyzeValidateHand ==
    /\ pc = "validate_hand"
    /\ IF DominantHandRaises(Lower(dominant_hand))
       THEN /\ response' = Some(HttpError(400, "dominant_hand must be 'left' or 'right'"))
            /\ pc' = "done"
       ELSE /\ pc' = "extract_poses"
            /\ UNCHANGED response
    /\ UNCHANGED <<cmpVars, poses, fps, dominant_hand, segment, calls, video, override>>
    /\ UNCHANGED <<sigVars, shareVars>>

\* Lines 116-133: step 1, PoseExtractor().extract_from_video(video_path),
\* which raises on a file it cannot open and otherwise returns the poses and
\* the metadata with the frame rate
AnalyzeExtractPoses(ps, rate) ==
    /\ pc = "extract_poses"
    /\ calls' = Append(calls, "extract_from_video")
    /\ IF video = "unreadable"
       THEN /\ response' = Some(AnalysisFailed("ValueError"))
            /\ pc' = "done"
            /\ UNCHANGED <<poses, fps>>
       ELSE /\ poses' = ps
            /\ fps' = rate
            /\ IF Len(ps) < 10
               THEN /\ response' = Some(AnalysisResponse(FALSE,
                                       "Could not detect enough pose frames.",
                                       SegNone, <<>>, 0, ps))
                    /\ pc' = "done"
               ELSE /\ pc' = "segment"
                    /\ UNCHANGED response
    /\ UNCHANGED <<cmpVars, dominant_hand, segment, video, override>>
    /\ UNCHANGED <<sigVars, shareVars>>

\* Mutant: the `if segment is None` return is missing, the handler goes on
\* to the comparison with the features it has.
AnalyzeSegment_NoReturn ==
    /\ pc = "segment"
    /\ calls' = Append(calls, "segment_shot")
    /\ \E outcome \in SegmentShot(poses, fps, Lower(dominant_hand)) :
          /\ segment' = outcome
          /\ pc' = IF outcome.kind = "segment" THEN "features" ELSE "comparator"
          /\ UNCHANGED response
    /\ UNCHANGED <<cmpVars, poses, fps, dominant_hand, video, override>>
    /\ UNCHANGED <<sigVars, shareVars>>

\* Lines 135-149: step 2, ShotSegmenter(hand.value).segment_shot(poses, fps)
AnalyzeSegment ==
    /\ pc = "segment"
    /\ calls' = Append(calls, "segment_shot")
    /\ \E outcome \in SegmentShot(poses, fps, Lower(dominant_hand)) :
          /\ segment' = outcome
          /\ CASE outcome.kind = "raise" ->
                    /\ response' = Some(AnalysisFailed("TypeError"))
                    /\ pc' = "done"
               [] outcome.kind = "none" ->
                    /\ response' = Some(AnalysisResponse(FALSE,
                                          "Could not detect smash motion.",
                                          SegNone, <<>>, 0, poses))
                    /\ pc' = "done"
               [] outcome.kind = "segment" ->
                    /\ pc' = "features"
                    /\ UNCHANGED response
    /\ UNCHANGED <<cmpVars, poses, fps, dominant_hand, video, override>>
    /\ UNCHANGED <<sigVars, shareVars>>

\* Mutant: the `if not features` return is missing, the handler goes on to
\* the comparison with an empty feature mapping.
AnalyzeFeatures_NoReturn ==
    /\ pc = "features"
    /\ calls' = Append(calls, "extract_all_features")
    /\ LET result == ExtractAllFeatures(poses, segment, Lower(dominant_hand), fps)
       IN  /\ features' = result.features
           /\ IF result.kind = "raise"
              THEN /\ response' = Some(AnalysisFailed("ZeroDivisionError"))
                   /\ pc' = "done"
              ELSE /\ pc' = "comparator"
                   /\ UNCHANGED response
    /\ UNCHANGED <<cpc, reference, metrics, score, sev, poses, fps, dominant_hand,
                   segment, video, override>>
    /\ UNCHANGED <<sigVars, shareVars>>

\* Lines 151-168: step 3, BiomechanicsExtractor(hand.value, fps)
\* .extract_all_features(poses, segment)
AnalyzeFeatures ==
    /\ pc = "features"
    /\ calls' = Append(calls, "extract_all_features")
    /\ LET result == ExtractAllFeatures(poses, segment, Lower(dominant_hand), fps)
       IN  /\ features' = result.features
           /\ IF result.kind = "raise"
              THEN /\ response' = Some(AnalysisFailed("ZeroDivisionError"))
                   /\ pc' = "done"
              ELSE IF result.features = <<>>
              THEN /\ response' = Some(AnalysisResponse(FALSE,
                                         "Could not extract biomechanics features.",
                                         segment, <<>>, 0, poses))
                   /\ pc' = "done"
              ELSE /\ pc' = "comparator"
                   /\ UNCHANGED response
    /\ UNCHANGED <<cpc, reference, metrics, score, sev, poses, fps, dominant_hand,
                   segment, video, override>>
    /\ UNCHANGED <<sigVars, shareVars>>

\* Lines 170-173: step 4, ReferenceComparator(reference_path), which reads
\* the override file if there is one
AnalyzeConstruct ==
    /\ pc = "comparator"
    /\ calls' = Append(calls, "ReferenceComparator")
    /\ IF LoadReferenceRaises(override)
       THEN /\ response' = Some(AnalysisFailed("JSONDecodeError"))
            /\ pc' = "done"
            /\ UNCHANGED reference
       ELSE /\ reference' = Some(LoadReference(override))
            /\ pc' = "compare"
            /\ UNCHANGED response
    /\ UNCHANGED <<cpc, features, metrics, score, sev, poses, fps, dominant_hand,
                   segment, video, override>>
    /\ UNCHANGED <<sigVars, shareVars>>

\* Line 174: comparator.compare(features)
AnalyzeCompare ==
    /\ pc = "compare"
    /\ calls' = Append(calls, "compare")
    /\ metrics' = Compare(Get(reference), features)
    /\ pc' = "score"
    /\ UNCHANGED <<cpc, reference, features, score, sev, poses, fps, dominant_hand,
                   segment, response, video, override>>
    /\ UNCHANGED <<sigVars, shareVars>>

\* Lines 175-192: comparator.compute_similarity_score(metrics) and the
\* success response
AnalyzeScore ==
    /\ pc = "score"
    /\ calls' = Append(calls, "compute_similarity_score")
    /\ score' = Some(ComputeSimilarityScore(metrics))
    /\ response' = Some(AnalysisResponse(TRUE, "Analysis complete", segment, metrics,
                                         ComputeSimilarityScore(metrics),
                                         ShotPoses(poses, segment)))
    /\ pc' = "done"
    /\ UNCHANGED <<cpc, reference, features, metrics, sev, poses, fps, dominant_hand,
                   segment, video, override>>
    /\ UNCHANGED <<sigVars, shareVars>>

Next ==
    \/ AnalyzeFindVideo
    \/ AnalyzeValidateHand
    \/ \E ps \in VideoStreams, rate \in VideoRates : AnalyzeExtractPoses(ps, rate)
    \/ AnalyzeSegment
    \/ AnalyzeFeatures
    \/ AnalyzeConstruct
    \/ AnalyzeCompare
    \/ AnalyzeScore

Spec == Init /\ [][Next]_vars

-----------------------------------------------------------------------------
(* Claims about analyze_video, checked under Spec *)

\* Position of a stage call in the pipeline
C7_Rank(call) ==
    CASE call = "extract_from_video" -> 0
      [] call = "segment_shot" -> 1
      [] call = "extract_all_features" -> 2
      [] call = "ReferenceComparator" -> 3
      [] call = "compare" -> 4
      [] call = "compute_similarity_score" -> 5

Called(call) == \E i \in 1..Len(calls) : calls[i] = call

\* C7: in every run in which the segmenter returns the no-segment result,
\* neither extract_all_features nor compare nor compute_similarity_score is
\* invoked afterwards; and the stages are only ever invoked in the order
\* segmenter, feature extractor, comparator.
C7_StagesInOrder ==
    /\ \A i, j \in 1..Len(calls) : i < j => C7_Rank(calls[i]) < C7_Rank(calls[j])
    /\ (Called("segment_shot") /\ segment.kind = "none") =>
          /\ ~Called("extract_all_features")
          /\ ~Called("compare")
          /\ ~Called("compute_similarity_score")
    /\ Called("extract_all_features") => Called("segment_shot")
    /\ Called("compare") => Called("extract_all_features")
    /\ Called("compute_similarity_score") => Called("compare")

\* C7 witness: the segmenter refused a stream of at least 15 poses and the
\* run ended with the failure response.
C7_Witness ==
    /\ pc = "done"
    /\ Len(poses) >= 15
    /\ segment.kind = "none"
    /\ calls = <<"extract_from_video", "segment_shot">>
    /\ response # None /\ ~Get(response).success /\ Get(response).status = 200

\* The response is a rejection of a configuration/input error: the 400 for an
\* unknown dominant hand, or the failure the malformed override causes.
C8_ConfigRejection ==
    /\ response # None
    /\ \/ Get(response).status = 400
       \/ Get(response).message = "Analysis failed: JSONDecodeError"

\* C8: an unknown dominant-hand value and a malformed reference override are
\* rejected before any computation begins: in every run the rejection occurs
\* before pose extraction, segmentation, feature extraction or comparison has
\* started.
C8_RejectedBeforeComputation ==
    C8_ConfigRejection => calls = <<>>

\* C28: every response of analyze_video with success = false carries an
\* empty metrics list and technique_similarity_score 0; every response with
\* success = true carries a shot_segment, the non-empty metrics computed
\* from the extracted features, a score in [0, 100] and the pose_data of
\* the frames within [start_frame, end_frame], and is returned only after
\* segmentation, feature extraction and comparison completed in that order.
C28_ResponseShape ==
    (response # None /\ Get(response).status = 200) =>
        LET r == Get(response)
        IN  /\ ~r.success =>
                  /\ r.metrics = <<>>
                  /\ r.technique_similarity_score = 0
            /\ r.success =>
                  /\ r.shot_segment.kind = "segment"
                  /\ r.shot_segment = segment
                  /\ features # <<>>
                  /\ r.metrics # <<>>
                  /\ r.metrics = Compare(Get(reference), features)
                  /\ 0 <= r.technique_similarity_score
                  /\ r.technique_similarity_score <= 1000
                  /\ \A k \in 1..Len(r.pose_data) :
                        /\ r.shot_segment.start_frame <= r.pose_data[k].frame_number
                        /\ r.pose_data[k].frame_number <= r.shot_segment.end_frame
                  /\ \A k \in 1..Len(poses) :
                        (/\ segment.start_frame <= poses[k].frame_number
                         /\ poses[k].frame_number <= segment.end_frame) =>
                            \E i \in 1..Len(r.pose_data) : r.pose_data[i] = poses[k]
                  /\ calls = <<"extract_from_video", "segment_shot",
                               "extract_all_features", "ReferenceComparator",
                               "compare", "compute_similarity_score">>

\* C28 witness: a success response whose pose_data leaves out poses of the
\* recording and whose score is strictly between 0 and 100.
C28_Witness ==
    /\ response # None
    /\ Get(response).success
    /\ Len(Get(response).pose_data) < Len(poses)
    /\ Get(response).technique_similarity_score \in 1..999

\* C28 witness of the failure side: the extractor returned no features for
\* the segment and the response carries the segment, no metrics, score 0.
C28_WitnessNoFeatures ==
    /\ response # None
    /\ Get(response).status = 200
    /\ ~Get(response).success
    /\ Get(response).shot_segment.kind = "segment"
    /\ Get(response).metrics = <<>>

-----------------------------------------------------------------------------
(* The signal routines called on their own, on an array the caller keeps:   *)
(* ShotSegmenter._interpolate_nans and _smooth_signal,                      *)
(* BiomechanicsExtractor._interpolate_nans and _smooth.                     *)

MaxSignalLen == 6

\* Sample values: multiples of 60, so that np.interp over every gap of a
\* series this short is exact in integers.
SampleValues == {0, 60, 180}

Signals ==
    UNION { [1..n -> {None} \cup { Some(v) : v \in SampleValues }] : n \in 0..MaxSignalLen }

\* The samples of an array times SavgolDen, NaN staying NaN.
Scaled(a) ==
    [i \in 1..Len(a) |-> IF a[i] = None THEN None ELSE Some(SavgolDen * Get(a[i]))]

Samples(x) == [i \in 1..Len(x) |-> Some(x[i])]

\* signal.savgol_filter(a, window, polyorder=2) on an array that holds NaN,
\* Len(a) >= window: the convolution gives NaN wherever the window holds a
\* NaN; each edge is the polynomial np.polyfit fits to the first or last
\* `window` samples, and np.polyfit on samples that hold a NaN either raises
\* LinAlgError (the least-squares driver reports no convergence) or yields
\* NaN coefficients, depending on the LAPACK build.
SavgolFilterNan(a, window) ==
    LET n == Len(a)
        half == window \div 2
        rows == SavgolRows(window)
        Holes(lo, hi) == \E k \in lo..hi : a[k] = None
        Zeroed(lo, hi) == [k \in 1..(hi - lo + 1) |->
                            IF a[lo + k - 1] = None THEN 0 ELSE Get(a[lo + k - 1])]
        propagated ==
            [i \in 1..n |->
                IF i <= half
                THEN IF Holes(1, window) THEN None
                     ELSE Some(Dot(rows[i], Zeroed(1, window)))
                ELSE IF i > n - half
                THEN IF Holes(n - window + 1, n) THEN None
                     ELSE Some(Dot(rows[window - (n - i)], Zeroed(n - window + 1, n)))
                ELSE IF Holes(i - half, i + half) THEN None
                     ELSE Some(Dot(rows[half + 1], Zeroed(i - half, i + half)))]
    IN  IF Holes(1, window) \/ Holes(n - window + 1, n)
        THEN {Raises(a), Returns(propagated, a)}
        ELSE {Returns(propagated, a)}

\* ShotSegmenter._interpolate_nans(a) as a call: line 314 copies the array
\* before filling it.
SegInterpolateNansCall(a) == Returns(SegInterpolateNans(a), a)

\* BiomechanicsExtractor._interpolate_nans(a) as a call
ExtInterpolateNansCall(a) == Returns(ExtInterpolateNans(a), a)

\* ShotSegmenter._smooth_signal(a) as a call: the set of its outcomes,
\* values times SavgolDen.
SmoothSignalCall(a) ==
    IF Valid(a) = 1..Len(a) THEN {Returns(Samples(SmoothSignal(Values(a))), a)}
    ELSE IF Len(a) < SMOOTHING_WINDOW THEN {Returns(Scaled(a), a)}
    ELSE LET w0 == Min2(SMOOTHING_WINDOW, Len(a) - 1)
             window == IF w0 % 2 = 0 THEN w0 - 1 ELSE w0
         IN  IF window < 3 THEN {Returns(Scaled(a), a)}
             ELSE SavgolFilterNan(a, window)

\* BiomechanicsExtractor._smooth(a) as a call (window = 5)
SmoothCall(a) ==
    IF Valid(a) = 1..Len(a) THEN {Returns(Samples(Smooth(Values(a))), a)}
    ELSE IF Len(a) < 5 THEN {Returns(Scaled(a), a)}
    ELSE SavgolFilterNan(a, 5)

InitSig ==
    /\ IdleCmp
    /\ IdleRun
    /\ IdleShare
    /\ array \in Signals
    /\ start_arg = 0
    /\ routine = "none"
    /\ returned = NoCall

\* One call of `name`, with outcome `out`.
SignalCall(name, out) ==
    /\ routine = "none"
    /\ routine' = name
    /\ returned' = [kind |-> out.kind, value |-> out.value]
    /\ array' = out.input
    /\ UNCHANGED <<cmpVars, runVars, start_arg, shareVars>>

CallSegInterpolateNans == SignalCall("seg_interpolate_nans", SegInterpolateNansCall(array))

CallExtInterpolateNans == SignalCall("ext_interpolate_nans", ExtInterpolateNansCall(array))

CallSmoothSignal == \E out \in SmoothSignalCall(array) : SignalCall("seg_smooth_signal", out)

CallSmooth == \E out \in SmoothCall(array) : SignalCall("ext_smooth", out)

NextSig ==
    \/ CallSegInterpolateNans
    \/ CallExtInterpolateNans
    \/ CallSmoothSignal
    \/ CallSmooth

SpecSig == InitSig /\ [][NextSig]_vars

\* The nearest valid samples around position i lie k positions away on
\* both sides.
C15_Equidistant(a, i, k) ==
    /\ a[i] = None
    /\ i - k >= 1 /\ i + k <= Len(a)
    /\ a[i - k] # None /\ a[i + k] # None
    /\ \A j \in (i - k + 1)..(i + k - 1) : a[j] = None

\* C15: both interpolation routines leave a fully valid series unchanged and
\* fill a single missing entry lying between two equidistant valid
\* neighbours a and b with (a + b) / 2.
C15_Interpolate ==
    routine \in {"seg_interpolate_nans", "ext_interpolate_nans"} =>
        /\ returned.kind = "return"
        /\ Valid(array) = 1..Len(array) => returned.value = array
        /\ \A i \in 1..Len(array) : \A k \in 1..Len(array) :
              C15_Equidistant(array, i, k) =>
                  2 * Get(returned.value[i]) = Get(array[i - k]) + Get(array[i + k])

\* C15 witness: the extractor's routine filled the only missing entry of a
\* series, between two different neighbours, with their mean.
C15_Witness ==
    /\ routine = "ext_interpolate_nans"
    /\ \E i \in 2..(Len(array) - 1) :
          /\ Valid(array) = (1..Len(array)) \ {i}
          /\ array[i - 1] # array[i + 1]
          /\ 2 * Get(returned.value[i]) = Get(array[i - 1]) + Get(array[i + 1])

\* C16: interpolation and smoothing never raise, return a series of the
\* input's length and never modify their input, for every input series,
\* the empty, the one-sample and the all-missing series included.
C16_NeverRaiseSameLength ==
    [][routine = "none" /\ routine' # "none" =>
          /\ returned'.kind = "return"
          /\ Len(returned'.value) = Len(array)
          /\ array' = array]_vars

\* C16 for the two interpolation routines alone, and for smoothing a series
\* without missing samples.
C16_WithoutMissingSamples ==
    [][(/\ routine = "none"
        /\ routine' # "none"
        /\ \/ routine' \in {"seg_interpolate_nans", "ext_interpolate_nans"}
           \/ Valid(array) = 1..Len(array)) =>
          /\ returned'.kind = "return"
          /\ Len(returned'.value) = Len(array)
          /\ array' = array]_vars

\* smooth(series, window=5) as stated: the largest odd window <= 5 that
\* fits the series; values times SavgolDen.
C23_Shrunken(data) ==
    IF Len(data) < 3 THEN Unsmoothed(data)
    ELSE SavgolFilter(data, IF Len(data) >= 5 THEN 5 ELSE 3)

\* C23: both smoothing routines smooth a series of length 3 or 4 with a
\* window of 3 and a series of length >= 5 with a window of 5, and return
\* only a series shorter than 3 unsmoothed.
C23_LargestOddWindow ==
    (routine \in {"seg_smooth_signal", "ext_smooth"} /\ Valid(array) = 1..Len(array)) =>
        /\ returned.kind = "return"
        /\ returned.value = Samples(C23_Shrunken(Values(array)))

\* What the code keeps of C23: the extractor's routine at every length and
\* the segmenter's at every length but 5, where its window is 3.
C23_ExceptSegmenterAtFive ==
    (/\ routine \in {"seg_smooth_signal", "ext_smooth"}
     /\ Valid(array) = 1..Len(array)
     /\ ~(routine = "seg_smooth_signal" /\ Len(array) = SMOOTHING_WINDOW)) =>
        /\ returned.kind = "return"
        /\ returned.value = Samples(C23_Shrunken(Values(array)))

-----------------------------------------------------------------------------
(* Analyses sharing the stage objects: one ShotSegmenter, one               *)
(* BiomechanicsExtractor and one ReferenceComparator are constructed once,  *)
(* and several analyses call segment_shot, extract_all_features, compare    *)
(* and compute_similarity_score on them, their calls interleaved in any     *)
(* order.  A call is one step: the methods work on locals and only read     *)
(* self and FEATURE_METADATA, so a finer interleaving shows nothing more.   *)

NumAnalyses == 2

\* The constructor arguments of the shared objects.
ShareConfigs ==
    { [hand |-> "right", fps |-> <<30, 1>>, custom |-> NoOverride],
      [hand |-> "right", fps |-> <<25, 1>>,
       custom |-> DictOverride([shoulder_rotation_angle |-> [reference |-> <<50, 1>>]])] }

\* The objects after construction (the __init__ methods), with the module's
\* FEATURE_METADATA table.
Constructed(c) ==
    [config |-> c,
     segmenter |-> [dominant_hand |-> c.hand],
     extractor |-> [dominant_hand |-> c.hand, fps |-> c.fps],
     comparator |-> [reference |-> LoadReference(c.custom)],
     metadata |-> FEATURE_METADATA]

ShareStreams ==
    { Stream(p) : p \in StreamParams({MaxLen}, {<<3>>}, {None, <<10>>, <<12>>},
                                     {{}}, {{}}, {4}, {9}) }

\* segment_shot and extract_all_features on the arguments the shared
\* objects can be called with, tabulated once.
SegmentShotTable ==
    [ps \in ShareStreams, c \in ShareConfigs |-> SegmentShot(ps, c.fps, c.hand)]

ExtractAllFeaturesTable ==
    [ps \in ShareStreams, c \in ShareConfigs |->
        [seg \in { s \in SegmentShotTable[ps, c] : s.kind = "segment" } |->
            ExtractAllFeatures(ps, seg, c.hand, c.fps)]]

\* The constructor arguments that give these segmenter and extractor fields.
ConfigOf(st) ==
    CHOOSE c \in ShareConfigs :
        /\ c.hand = st.segmenter.dominant_hand
        /\ c.hand = st.extractor.dominant_hand
        /\ c.fps = st.extractor.fps

\* What the calls of an analysis return.
Results(segment_, features_, metrics_, score_) ==
    [segment |-> segment_, features |-> features_, metrics |-> metrics_, score |-> score_]

\* An analysis that has not called anything yet.  `input` is the pose list
\* as the caller passed it; `alone` holds what each call the analysis has
\* made returns on freshly constructed objects (for segment_shot, the set
\* of the values it can return); `overlapped` tells whether another
\* analysis made a call between this one's first and last call.
NewAnalysis(ps) ==
    [pc |-> "segment", input |-> ps, poses |-> ps, overlapped |-> FALSE,
     got |-> Results(SegNone, <<>>, <<>>, None),
     alone |-> Results({}, <<>>, <<>>, None)]

\* What a stage call leaves behind: the shared objects, the caller's pose
\* list and the value returned.
Effect(st, ps, out) == [stages |-> st, poses |-> ps, out |-> out]

\* segmenter.segment_shot(ps, fps): the set of its effects
SegmenterCall(st, ps) ==
    { Effect(st, ps, out) : out \in SegmentShotTable[ps, ConfigOf(st)] }

\* bio_extractor.extract_all_features(ps, seg)
ExtractorCall(st, ps, seg) ==
    Effect(st, ps, ExtractAllFeaturesTable[ps, ConfigOf(st)][seg])

\* Mutant: compare() keeps the user's values as the next reference.
ComparatorCall_Adapts(st, extracted_features) ==
    LET Items(key) == { i \in 1..Len(extracted_features) : extracted_features[i][1] = key }
        adapted == [key \in KnownFeatures |->
                      IF Items(key) = {} THEN st.comparator.reference[key]
                      ELSE extracted_features[CHOOSE i \in Items(key) : TRUE][2]]
    IN  Effect([st EXCEPT !.comparator.reference = adapted], <<>>,
               Compare(st.comparator.reference, extracted_features))

\* comparator.compare(extracted_features)
ComparatorCall(st, extracted_features) ==
    Effect(st, <<>>, Compare(st.comparator.reference, extracted_features))

\* comparator.compute_similarity_score(ms)
ScoreCall(st, ms) == Effect(st, <<>>, ComputeSimilarityScore(ms))

InitShare ==
    /\ IdleCmp
    /\ IdleRun
    /\ IdleSig
    /\ stages \in { Some(Constructed(c)) : c \in ShareConfigs }
    /\ analyses \in [1..NumAnalyses -> { NewAnalysis(ps) : ps \in ShareStreams }]

\* Analysis a makes a step while the others are where they are: every other
\* analysis that is between its first and its last call has been overlapped.
Step(a, after) ==
    [b \in 1..NumAnalyses |->
        IF b = a THEN after
        ELSE IF analyses[b].pc \notin {"segment", "done"}
        THEN [analyses[b] EXCEPT !.overlapped = TRUE]
        ELSE analyses[b]]

\* The objects a run alone would call: constructed from the same arguments.
Fresh == Constructed(Get(stages).config)

ShareSegment(a) ==
    /\ analyses[a].pc = "segment"
    /\ \E e \in SegmenterCall(Get(stages), analyses[a].poses) :
          /\ stages' = Some(e.stages)
          /\ analyses' = Step(a, [analyses[a] EXCEPT
                 !.poses = e.poses,
                 !.got.segment = e.out,
                 !.alone.segment = { f.out : f \in SegmenterCall(Fresh, analyses[a].input) },
                 !.pc = IF e.out.kind = "segment" THEN "features" ELSE "done"])
    /\ UNCHANGED <<cmpVars, runVars, sigVars>>

ShareFeatures(a) ==
    /\ analyses[a].pc = "features"
    /\ \E e \in {ExtractorCall(Get(stages), analyses[a].poses, analyses[a].got.segment)},
          f \in {ExtractorCall(Fresh, analyses[a].input, analyses[a].got.segment)} :
          /\ stages' = Some(e.stages)
          /\ analyses' = Step(a, [analyses[a] EXCEPT
                 !.poses = e.poses,
                 !.got.features = e.out.features,
                 !.alone.features = f.out.features,
                 !.pc = IF e.out.kind = "raise" \/ e.out.features = <<>>
                        THEN "done" ELSE "compare"])
    /\ UNCHANGED <<cmpVars, runVars, sigVars>>

ShareCompare(a) ==
    /\ analyses[a].pc = "compare"
    /\ LET e == ComparatorCall(Get(stages), analyses[a].got.features)
           f == ComparatorCall(Fresh, analyses[a].got.features)
       IN  /\ stages' = Some(e.stages)
           /\ analyses' = Step(a, [analyses[a] EXCEPT
                  !.got.metrics = e.out,
                  !.alone.metrics = f.out,
                  !.pc = "score"])
    /\ UNCHANGED <<cmpVars, runVars, sigVars>>

ShareScore(a) ==
    /\ analyses[a].pc = "score"
    /\ LET e == ScoreCall(Get(stages), analyses[a].got.metrics)
           f == ScoreCall(Fresh, analyses[a].got.metrics)
       IN  /\ stages' = Some(e.stages)
           /\ analyses' = Step(a, [analyses[a] EXCEPT
                  !.got.score = Some(e.out),
                  !.alone.score = Some(f.out),
                  !.pc = "done"])
    /\ UNCHANGED <<cmpVars, runVars, sigVars>>

NextShare ==
    \E a \in 1..NumAnalyses :
        \/ ShareSegment(a)
        \/ ShareFeatures(a)
        \/ ShareCompare(a)
        \/ ShareScore(a)

SpecShare == InitShare /\ [][NextShare]_vars

-----------------------------------------------------------------------------
(* The two peak searches of ShotSegmenter as functions of their arguments.  *)

MaxPeakLen == 10

\* Series lengths: the first 60% of the shorter holds 4 frames, of the longer 6.
PeakLens == {MaxPeakLen - 2, MaxPeakLen}

\* Sample values whose differences 4, 5 and 9 lie on both sides of the
\* knee search's prominence of 5.
PeakValues == {0, 5, 9}

PeakSeries == UNION { [1..n -> PeakValues] : n \in PeakLens }

\* after_frame arguments: the first frame and one near the end of the series
StartFrames == {0, MaxPeakLen - 6}

\* A series of whole degrees in the units FindKneeFlexionPeak takes.
InDegrees(a) == [i \in 1..Len(a) |-> SavgolDen * Unit * a[i]]

InitPeak ==
    /\ IdleCmp
    /\ IdleRun
    /\ IdleShare
    /\ array \in PeakSeries
    /\ start_arg \in StartFrames
    /\ routine = "none"
    /\ returned = NoCall

\* One call of the peak search `name` that returns `out`.
PeakCall(name, out) ==
    /\ routine = "none"
    /\ routine' = name
    /\ returned' = [kind |-> "return", value |-> out]
    /\ UNCHANGED <<cmpVars, runVars, array, start_arg, shareVars>>

CallFindKneeFlexionPeak ==
    \E out \in FindKneeFlexionPeak(InDegrees(array)) :
        PeakCall("find_knee_flexion_peak", out)

CallFindWristVelocityPeak ==
    \E out \in FindWristVelocityPeak(array, start_arg) :
        PeakCall("find_wrist_velocity_peak", out)

NextPeak ==
    \/ CallFindKneeFlexionPeak
    \/ CallFindWristVelocityPeak

SpecPeak == InitPeak /\ [][NextPeak]_vars

\* The samples at the frames strictly after start_arg; its element i is
\* frame start_arg + i.
C19_After == SubSeq(array, start_arg + 2, Len(array))

\* The positions of `peaks` whose prominence in x is the largest.
C19_MostProminent(x, peaks) ==
    { p \in peaks : \A q \in peaks : Prominence(x, q) <= Prominence(x, p) }

\* C19: contact_frame is chosen among the frames strictly after start_frame:
\* it is the most prominent local maximum of that sub-series among those
\* with prominence at least half the sub-series' standard deviation and at
\* least 3 frames apart, or the global maximum of the sub-series when no
\* local maximum qualifies; the search fails when fewer than 5 frames remain
\* after start_frame.
C19_ContactFrame ==
    routine = "find_wrist_velocity_peak" =>
        IF Len(array) - 1 - start_arg < 5 THEN returned.value = None
        ELSE \E peaks \in FindPeaks(C19_After, HalfStd(C19_After), 3) :
                IF peaks = {}
                THEN \E i \in 1..Len(C19_After) :
                        /\ \A j \in 1..Len(C19_After) : C19_After[j] <= C19_After[i]
                        /\ returned.value = Some(start_arg + i)
                ELSE \E p \in C19_MostProminent(C19_After, peaks) :
                        returned.value = Some(start_arg + p)

\* The part of C19 that holds: the search fails exactly when fewer than 5
\* frames remain after start_frame, and never returns a frame before it.
C19_FailsWhenFewRemain ==
    routine = "find_wrist_velocity_peak" =>
        /\ (returned.value = None) <=> (Len(array) - 1 - start_arg < 5)
        /\ returned.value # None => Get(returned.value) \in start_arg..(Len(array) - 1)

\* The flexion signal restricted to its first 60% of frames.
C20_Window == SubSeq(array, 1, (6 * Len(array)) \div 10)

\* The sets of local minima of the window that find_peaks can keep:
\* prominence at least 5 degrees, at least 3 frames apart.
C20_Minima == FindPeaks(Negated(C20_Window), 5, 3)

\* C20: start_frame is the most prominent local minimum (prominence at least
\* 5, candidates at least 3 frames apart) of the flexion signal restricted
\* to its first 60% of frames, or the global minimum of that window when no
\* local minimum qualifies; no frame beyond the window is returned, and the
\* search fails when the window has fewer than 5 frames.
C20_StartFrame ==
    routine = "find_knee_flexion_peak" =>
        IF Len(C20_Window) < 5 THEN returned.value = None
        ELSE /\ returned.value # None
             /\ Get(returned.value) \in 0..(Len(C20_Window) - 1)
             /\ \E peaks \in C20_Minima :
                   IF peaks = {}
                   THEN \A j \in 1..Len(C20_Window) :
                           C20_Window[Get(returned.value) + 1] <= C20_Window[j]
                   ELSE Get(returned.value) + 1
                           \in C19_MostProminent(Negated(C20_Window), peaks)

\* C20 witness: the window holds two qualifying minima of different
\* prominence, and the search returned the later, more prominent one.
C20_Witness ==
    /\ routine = "find_knee_flexion_peak"
    /\ returned.value # None
    /\ \E peaks \in C20_Minima :
          /\ Cardinality(peaks) = 2
          /\ Get(returned.value) + 1 = SetMax(peaks)
          /\ Prominence(Negated(C20_Window), SetMin(peaks))
                < Prominence(Negated(C20_Window), SetMax(peaks))

-----------------------------------------------------------------------------
(* extract_all_features as a function of its arguments: a pose list, a      *)
(* segment and the extractor's frame rate and hand.                         *)

MaxExtLen == 8

\* PoseExtractor.extract_from_video appends a FramePose only for a frame
\* with detected landmarks while frame_number counts every frame: the
\* recording ps without the frames where nothing was detected.
Skipped(ps, frames) == SelectSeq(ps, LAMBDA p : p.frame_number \notin frames)

\* The recording ps with every joint at the given visibility in `frames`.
Dimmed(ps, frames, visibility) ==
    [i \in 1..Len(ps) |->
        IF ps[i].frame_number \in frames
        THEN FramePose(ps[i].frame_number,
                       [joint \in DOMAIN ps[i].keypoints |->
                           [ps[i].keypoints[joint] EXCEPT !.visibility = visibility]])
        ELSE ps[i]]

\* The recording ps with both elbows raised in `frames`, each by its
\* distance to the wrist, which keeps the elbow angle at 45 degrees there:
\* the elbow moves into and out of those frames.
ElbowLifted(ps, frames) ==
    [i \in 1..Len(ps) |->
        LET kp == ps[i].keypoints
            Lifted(side) ==
                [kp[side \o "_elbow"] EXCEPT
                    !.y = @ - Abs(kp[side \o "_wrist"].x - kp[side \o "_elbow"].x)]
        IN  IF ps[i].frame_number \in frames
            THEN FramePose(ps[i].frame_number,
                           [joint \in DOMAIN kp |->
                               CASE joint = "left_elbow" -> Lifted("left")
                                 [] joint = "right_elbow" -> Lifted("right")
                                 [] OTHER -> kp[joint]])
            ELSE ps[i]]

\* Short recordings: with and without the knee bend and the swing, with the
\* wrist or the far hip at visibility 0.4 or exactly 0.5, with every joint
\* dim in all or in the later frames, with undetected frames, and with the
\* elbow moving early or late.
ExtStreams ==
    LET Recordings(armGaps) ==
            { Stream(p) : p \in StreamParams({MaxExtLen},
                                             {None, <<2>>},
                                             {None, <<4>>, <<5>>},
                                             {{}},
                                             armGaps,
                                             {4, 5},
                                             {9, 5}) }
        base == Recordings({{}})
    IN  Recordings({{}, {3}})
        \cup { Dimmed(ps, 0..MaxExtLen, 4) : ps \in base }
        \cup { Dimmed(ps, 3..MaxExtLen, 5) : ps \in base }
        \cup { Skipped(ps, {1, 3}) : ps \in base }
        \cup { Skipped(ps, {0}) : ps \in base }
        \cup { ElbowLifted(ps, {frame}) : ps \in base, frame \in {1, MaxExtLen - 2} }

\* Segments over the recording: bounds with fewer and with more than five
\* frames between them, at two durations.
ExtSegments ==
    { ShotSegment(start, start + 1, end, 1, duration) :
        start \in {0, 2}, end \in {3, 5, MaxExtLen - 1},
        duration \in { <<100, 3>>, <<40, 1>> } }

ExtRates == { <<30, 1>>, <<2997, 100>>, <<0, 1>>, <<-30, 1>> }

InitExt ==
    /\ IdleCmp
    /\ IdleSig
    /\ IdleShare
    /\ poses \in ExtStreams
    /\ segment \in ExtSegments
    /\ fps \in ExtRates
    /\ dominant_hand \in Hands
    /\ pc = "segmented"
    /\ calls = <<>>
    /\ response = None
    /\ video = "ok"
    /\ override = NoOverride

NextExt == CallExtractAllFeatures

SpecExt == InitExt /\ [][NextExt]_vars

\* The poses whose frame_number lies within the segment's bounds.
C21_Qualifying ==
    { i \in 1..Len(poses) : /\ segment.start_frame <= poses[i].frame_number
                            /\ poses[i].frame_number <= segment.end_frame }

\* C21: extract_all_features uses only the poses whose frame lies within
\* [start_frame, end_frame]; when it returns, the feature set is empty
\* exactly when fewer than 5 poses qualify, and with at least 5 it holds
\* swing_duration_ms equal to segment.duration_ms.
C21_SegmentPosesAndDuration ==
    pc = "extracted" =>
        /\ (features = <<>>) <=> (Cardinality(C21_Qualifying) < 5)
        /\ Cardinality(C21_Qualifying) >= 5 =>
              \E i \in 1..Len(features) :
                  features[i] = <<"swing_duration_ms", segment.duration_ms>>
        /\ features =
              ExtractAllFeatures([i \in 1..Cardinality(C21_Qualifying) |->
                                     poses[SetMin(C21_Qualifying) + i - 1]],
                                 segment, dominant_hand, fps).features

\* C21 witness: at least five poses qualified, no joint was visible in any
\* of them, and the feature set is swing_duration_ms alone.
C21_Witness ==
    /\ pc = "extracted"
    /\ Cardinality(C21_Qualifying) >= 5
    /\ features = << <<"swing_duration_ms", segment.duration_ms>> >>

\* The poses extract_all_features keeps
C24_ShotPoses == [k \in 1..Cardinality(C21_Qualifying) |-> poses[SetMin(C21_Qualifying) + k - 1]]

C24_Has(name) == \E k \in 1..Len(features) : features[k][1] = name

C24_Feature(name) ==
    features[CHOOSE k \in 1..Len(features) : features[k][1] = name][2]

\* The index of the first maximum of a series: a maximum that every earlier
\* sample is strictly below.
C24_FirstMaximum(x) ==
    CHOOSE i \in 1..Len(x) :
        /\ \A j \in 1..Len(x) : x[j] <= x[i]
        /\ \A j \in 1..(i - 1) : x[j] < x[i]

\* value = frames / fps * 1000, fps # 0, as a fraction in lowest terms
C24_IsDelay(value, frames) ==
    value = RNorm(<<Sign(fps[1]) * frames * 1000 * fps[2], Abs(fps[1])>>)

C24_Series ==
    [hip |-> SegmentRotationVelocity(C24_ShotPoses, "hip"),
     shoulder |-> SegmentRotationVelocity(C24_ShotPoses, "shoulder"),
     elbow |-> SegmentVelocity(C24_ShotPoses, dominant_hand \o "_elbow"),
     wrist |-> SegmentVelocity(C24_ShotPoses, dominant_hand \o "_wrist")]

C24_Pair(name, earlier, later) ==
    (earlier # None /\ later # None) =>
        /\ C24_Has(name)
        /\ C24_IsDelay(C24_Feature(name),
                       C24_FirstMaximum(Get(later)) - C24_FirstMaximum(Get(earlier)))

-----------------------------------------------------------------------------
(* Recordings with undetected frames: PoseExtractor.extract_from_video      *)
(* numbers every frame it reads and appends a FramePose only for the        *)
(* frames where landmarks were detected, so frame_number runs ahead of the  *)
(* position in the list from the first undetected frame on.                 *)

MaxGapLen == 18

GapFrames == { {}, {0}, {1}, {6, 7}, {MaxGapLen - 1} }

GapStreams ==
    { Skipped(Stream(p), frames) :
        p \in StreamParams({MaxGapLen}, {<<3>>, <<8>>}, {<<10>>, <<12>>},
                           {{}}, {{}}, {4}, {9}),
        frames \in GapFrames }

NextGap ==
    \/ \E ps \in GapStreams, rate \in FrameRates, hand \in Hands :
          CallSegmentShot(ps, rate, hand)
    \/ CallExtractAllFeatures

SpecGap == InitSeg /\ [][NextGap]_vars

\* C25: the boundaries segment_shot returns denote the frames the extractor
\* and the response select by frame_number, streams with undetected frames
\* included: the poses with start_frame <= frame_number <= end_frame are
\* exactly poses[start_frame..end_frame].
C25_PositionsAreFrames ==
    (pc # "new" /\ segment.kind = "segment") =>
        ShotPoses(poses, segment)
            = SubSeq(poses, segment.start_frame + 1, segment.end_frame + 1)

\* C25 for a recording in which every frame before the segment's end was
\* detected.
C25_WithoutEarlierGaps ==
    (/\ pc # "new"
     /\ segment.kind = "segment"
     /\ \A k \in 1..Min2(Len(poses), segment.end_frame + 2) :
           poses[k].frame_number = k - 1) =>
        ShotPoses(poses, segment)
            = SubSeq(poses, segment.start_frame + 1, segment.end_frame + 1)

\* The speed series of _compute_wrist_snap_timing for one joint over the
\* poses extract_all_features keeps: as sampled, and interpolated and
\* smoothed.
C30_Samples(joint) == StepSpeedSamples(C24_ShotPoses, dominant_hand \o joint, fps)

C30_Speeds(joint) == Smooth(Values(ExtInterpolateNans(C30_Samples(joint))))

\* C30: wrist_snap_timing, when present, lies in [-100, 100]: it is
\* (first argmax of the wrist speeds - first argmax of the elbow speeds)
\* / (N - 1) * 100 over the N >= 5 segment poses, the first sample of each
\* speed series being missing and filled by interpolation.
C30_WristSnapTiming ==
    (pc = "extracted" /\ C24_Has("wrist_snap_timing")) =>
        LET timing == C24_Feature("wrist_snap_timing")
            N == Len(C24_ShotPoses)
        IN  /\ N >= 5
            /\ timing[2] > 0
            /\ -100 * timing[2] <= timing[1] /\ timing[1] <= 100 * timing[2]
            /\ \A joint \in {"_elbow", "_wrist"} :
                  /\ C30_Samples(joint)[1] = None
                  /\ ExtInterpolateNans(C30_Samples(joint))[1] # None
            /\ timing[1] * (N - 1)
                  = (C24_FirstMaximum(C30_Speeds("_wrist"))
                     - C24_FirstMaximum(C30_Speeds("_elbow"))) * 100 * timing[2]

\* C30 witness: the elbow peaked after the wrist, the timing is negative.
C30_Witness ==
    /\ pc = "extracted"
    /\ C24_Has("wrist_snap_timing")
    /\ C24_Feature("wrist_snap_timing")[1] < 0

\* C30 witness of the other side: the wrist peaked after the elbow.
C30_WitnessLateWrist ==
    /\ pc = "extracted"
    /\ C24_Has("wrist_snap_timing")
    /\ C24_Feature("wrist_snap_timing")[1] > 0

====
